---- MODULE Spec2Model ----
(***************************************************************************)
(* The entropy-coded trie codec of src/src/ectrie/trie.h                    *)
(* (pdlfs::ectrie::trie): encode_rec, locate_rec and skip_rec as a machine  *)
(* over an explicit call stack, one step per invocation of a *_rec body,    *)
(* with the four primitives the header includes (bit_access, exp_golomb,    *)
(* sign_interleave, huffman) as operators.                                  *)
(***************************************************************************)
EXTENDS Integers, Sequences, FiniteSets, TLC

(***************************************************************************)
(* Bounds of the model.                                                     *)
(***************************************************************************)
\* largest key array handed to encode
MaxKeys == 4
\* recursion levels followed past key_len*8 when a build has no depth check
MaxOverrun == 1
\* largest value handed to the exp-Golomb coder on its own, and largest
\* Golomb value an arbitrary input stream is taken to hold
MaxGolomb == 40

\* the byte values keys are drawn from (0x00 0x01 0x10 0x80 0x90)
KeyBytes == {0, 1, 16, 128, 144}
\* key_len, in bytes
KeyLens == {1}
\* instantiations of the HuffmanCodingLimit template parameter
\* (trie.h:25; 16 is the default)
HuffmanCodingLimits == {2, 16}
\* values of dest_base and dest_keys_per_block
DestBases == {0, 1}
DestKeysPerBlock == {1, 2, 3}

(***************************************************************************)
(* size_t: 64-bit unsigned words, as four 16-bit limbs, least significant   *)
(* first.  All arithmetic is modulo 2^64.                                   *)
(***************************************************************************)
LimbBase == 65536
LimbTop == 32768

W(k) == <<k % LimbBase, (k \div LimbBase) % LimbBase, 0, 0>>

WAdd(a, b) ==
  LET s1 == a[1] + b[1]
      s2 == a[2] + b[2] + (s1 \div LimbBase)
      s3 == a[3] + b[3] + (s2 \div LimbBase)
      s4 == a[4] + b[4] + (s3 \div LimbBase)
  IN  <<s1 % LimbBase, s2 % LimbBase, s3 % LimbBase, s4 % LimbBase>>

WNot(a) == <<LimbBase - 1 - a[1], LimbBase - 1 - a[2],
             LimbBase - 1 - a[3], LimbBase - 1 - a[4]>>

WSub(a, b) == WAdd(a, WAdd(WNot(b), W(1)))

WShl1(a) ==
  <<(2 * a[1]) % LimbBase,
    (2 * a[2] + (a[1] \div LimbTop)) % LimbBase,
    (2 * a[3] + (a[2] \div LimbTop)) % LimbBase,
    (2 * a[4] + (a[3] \div LimbTop)) % LimbBase>>

WShr1(a) ==
  <<(a[1] \div 2) + (a[2] % 2) * LimbTop,
    (a[2] \div 2) + (a[3] % 2) * LimbTop,
    (a[3] \div 2) + (a[4] % 2) * LimbTop,
    a[4] \div 2>>

WOr1(a) == <<a[1] + (1 - (a[1] % 2)), a[2], a[3], a[4]>>

WTopBit(a) == a[4] \div LimbTop

WLe(a, b) ==
  IF a[4] # b[4] THEN a[4] < b[4]
  ELSE IF a[3] # b[3] THEN a[3] < b[3]
  ELSE IF a[2] # b[2] THEN a[2] < b[2]
  ELSE a[1] <= b[1]

\* a word whose value fits the model's integers, and that value
WSmall(a) == a[4] = 0 /\ a[3] = 0 /\ a[2] < LimbTop \div 2
WVal(a) == a[1] + LimbBase * a[2]

(***************************************************************************)
(* bit_access::get: bit `depth` of a key, most significant bit of byte 0    *)
(* first.  A key is a sequence of key_len bytes.                            *)
(***************************************************************************)
RECURSIVE Pow2(_)
Pow2(e) == IF e = 0 THEN 1 ELSE 2 * Pow2(e - 1)

BitGet(key, depth) ==
  (key[(depth \div 8) + 1] \div Pow2(7 - (depth % 8))) % 2

(***************************************************************************)
(* sign_interleave on size_t: 0,1,2,.. -> 0,2,4,..; -1,-2,.. -> 1,3,..      *)
(***************************************************************************)
SignEncode(v) ==
  IF WTopBit(v) = 0 THEN WShl1(v) ELSE WOr1(WShl1(WNot(v)))

SignDecode(u) ==
  IF u[1] % 2 = 0 THEN WShr1(u) ELSE WNot(WShr1(u))

(***************************************************************************)
(* exp_golomb<0>: value u is written as m = u + 1 in binary, preceded by    *)
(* (bit length of m) - 1 zero bits.                                         *)
(***************************************************************************)
RECURSIVE BitLen(_)
BitLen(m) == IF m = 0 THEN 0 ELSE 1 + BitLen(m \div 2)

Zeros(k) == [i \in 1..k |-> 0]

\* the `len` low bits of m, most significant first
BinaryBits(m, len) == [i \in 1..len |-> (m \div Pow2(len - i)) % 2]

GolombEncodeShort(u) ==
  LET m == u + 1
      len == BitLen(m)
  IN  Zeros(len - 1) \o BinaryBits(m, len - 1)

GolombEncode(u) ==
  LET m == u + 1
      len == BitLen(m)
  IN  Zeros(len - 1) \o BinaryBits(m, len)

\* number of zero bits of buf from position iter+1 on, to the first 1 bit;
\* -1 when the buffer ends first
RECURSIVE ZeroRun(_, _)
ZeroRun(buf, iter) ==
  IF iter >= Len(buf) THEN -1
  ELSE IF buf[iter + 1] = 1 THEN 0
  ELSE LET r == ZeroRun(buf, iter + 1) IN IF r < 0 THEN -1 ELSE r + 1

RECURSIVE BitsValue(_, _, _)
BitsValue(buf, from, len) ==
  IF len = 0 THEN 0
  ELSE 2 * BitsValue(buf, from, len - 1) + buf[from + len]

\* decode at cursor iter (bits consumed so far): [ok, value, iter]
GolombDecode(buf, iter) ==
  LET z == ZeroRun(buf, iter)
  IN  IF z < 0 \/ iter + 2 * z + 1 > Len(buf)
      THEN [ok |-> FALSE, value |-> 0, iter |-> iter]
      ELSE [ok |-> TRUE,
            value |-> Pow2(z) + BitsValue(buf, iter + z + 1, z) - 1,
            iter |-> iter + 2 * z + 1]

(***************************************************************************)
(* huffman: a prefix code built from a weight per symbol by repeatedly      *)
(* merging the two lowest-weight nodes.  A node is [w, code], code a        *)
(* function from the node's symbols to their bit sequences so far; a code   *)
(* table is such a function over all symbols 0..num_symbols-1.              *)
(***************************************************************************)
RECURSIVE MinIndex(_, _)
\* index of the first node of lowest weight among nodes[1..k]
MinIndex(nodes, k) ==
  IF k = 1 THEN 1
  ELSE LET m == MinIndex(nodes, k - 1)
       IN  IF nodes[k].w < nodes[m].w THEN k ELSE m

RemoveAt(s, i) == SubSeq(s, 1, i - 1) \o SubSeq(s, i + 1, Len(s))

MergeNodes(a, b) ==
  [w |-> a.w + b.w,
   code |-> [s \in (DOMAIN a.code) \cup (DOMAIN b.code) |->
               IF s \in DOMAIN a.code THEN <<0>> \o a.code[s]
               ELSE <<1>> \o b.code[s]]]

RECURSIVE HuffmanMerge(_)
HuffmanMerge(nodes) ==
  IF Len(nodes) = 1 THEN nodes[1].code
  ELSE LET i == MinIndex(nodes, Len(nodes))
           rest1 == RemoveAt(nodes, i)
           j == MinIndex(rest1, Len(rest1))
           rest2 == RemoveAt(rest1, j)
       IN  HuffmanMerge(Append(rest2, MergeNodes(nodes[i], rest1[j])))

\* gen.generate(t); new huffman(t): weights is a sequence, weights[k+1] the
\* weight of symbol k
HuffmanGenerate(weights) ==
  HuffmanMerge([k \in 1..Len(weights) |->
                  [w |-> weights[k], code |-> [s \in {k - 1} |-> <<>>]]])

\* huffman::encode: the codeword of a symbol
HuffmanEncode(table, symbol) == table[symbol]

IsPrefixAt(buf, iter, word) ==
  /\ iter + Len(word) <= Len(buf)
  /\ \A i \in 1..Len(word) : buf[iter + i] = word[i]

\* huffman::decode at cursor iter: the symbols whose codeword the stream
\* continues with (one at most, for a prefix code), as [ok, value, iter]
HuffmanDecode(table, buf, iter) ==
  LET hits == {s \in DOMAIN table : IsPrefixAt(buf, iter, table[s])}
  IN  IF hits = {} THEN [ok |-> FALSE, value |-> 0, iter |-> iter]
      ELSE LET s == CHOOSE x \in hits : \A y \in hits : x <= y
           IN  [ok |-> TRUE, value |-> s, iter |-> iter + Len(table[s])]

(***************************************************************************)
(* trie::trie(): the weight of every symbol of the table for size n.        *)
(***************************************************************************)
RECURSIVE BinomialRowDivideFirst(_, _)
\* the recurrence with the division before the multiplication
BinomialRowDivideFirst(n, k) ==
  IF k = 0 THEN <<1>>
  ELSE LET row == BinomialRowDivideFirst(n, k - 1)
       IN  Append(row, (row[k] \div k) * (n - k + 1))

RECURSIVE BinomialRow(_, _)
\* <<v_0, .., v_k>> with v_0 = 1 and v_k = v_{k-1} * (n - k + 1) / k
BinomialRow(n, k) ==
  IF k = 0 THEN <<1>>
  ELSE LET row == BinomialRow(n, k - 1)
       IN  Append(row, (row[k] * (n - k + 1)) \div k)

WeightsWeakFull(weak, n) == BinomialRow(n, n)

Weights(weak, n) ==
  IF ~weak THEN BinomialRow(n, n)
  ELSE [k \in 1..n |-> IF k = 1 THEN 1 * 2 ELSE BinomialRow(n, n - 1)[k]]

\* the tables the constructor builds for n = 2..limit (huff_[n - 2])
DefaultTables ==
  [weak \in BOOLEAN |->
     [n \in 2..16 |-> HuffmanGenerate(Weights(weak, n))]]

Construct(weak, limit) == [n \in 2..limit |-> DefaultTables[weak][n]]

(***************************************************************************)
(* State.                                                                   *)
(***************************************************************************)
VARIABLES
  WeakOrdering,         \* template parameter (trie.h:25)
  HuffmanCodingLimit,   \* template parameter (trie.h:25)
  NDEBUG,               \* the build: TRUE when assert() is compiled out
  huff_,                \* huff_[n]: the code table for size n (huff_[n - 2])
  arr, key_len,         \* encode's key array (index 0 is arr[1]) and key length
  off0, n0,             \* the window [off0, off0 + n0) of the top-level call
  dest_base, dest_keys_per_block,
  out_buf,              \* encode's output bits
  in_buf, iter,         \* locate's input bits and cursor (in_out_buf_iter)
  key,                  \* locate's query key
  stack,                \* pending *_rec invocations, innermost first
  rank,                 \* sum of the `left + ...` terms of locate_rec so far
  pc, err,
  last,                 \* what the last *_rec step did
  enc_log,              \* every symbol encode_rec wrote: [off,n,depth,pos,left]
  enc_span,             \* for every range encode_rec returned from, the
                        \*   output positions it began and ended at
  skip_done,            \* the skip_rec ranges that returned in the last step
  probe,                \* one value put through a coder on its own
  dist,                 \* the argument of recreate_huffman_from_dist:
                        \*   dist[n][k + 1] is the weight of symbol k at size n
  rebuild,              \* how far recreate_huffman_from_dist has come
  threads,              \* the calling threads: the one running and the
                        \*   calls of the others, each as its own variables
  sync_,                \* RadosFio: writes go through rados_write, not aio
  mutex_,               \* RadosFio::mutex_: 0 when free, else its holder
  fobj,                 \* the RadosFobj objects allocated so far
  ops,                  \* the RadosFio operation each client thread is in
  rados,                \* the io context: the async writes in flight
  audit,                \* what went wrong so far, if anything
  ret                   \* the operation that returned last

vars == <<WeakOrdering, HuffmanCodingLimit, NDEBUG, huff_, arr, key_len, off0,
          n0, dest_base, dest_keys_per_block, out_buf, in_buf, iter, key,
          stack, rank, pc, err, last, enc_log, enc_span, skip_done, probe,
          dist, rebuild, threads, sync_, mutex_, fobj, ops, rados, audit, ret>>

fio_vars == <<sync_, mutex_, fobj, ops, rados, audit, ret>>

params == <<WeakOrdering, HuffmanCodingLimit, NDEBUG, arr, key_len, off0, n0,
            dest_base, dest_keys_per_block, probe, dist, rebuild, threads,
            fio_vars>>

\* no distribution supplied, no rebuild called, one caller
NoDist == <<>>
NoRebuild == [phase |-> "none", n |-> 0, slots |-> <<>>]
NoThreads == [self |-> 0, saved |-> <<>>]

\* no RadosFio in use
NoRados == [next |-> 0, calls |-> 0, inflight |-> {}, failed |-> {}]
NoAudit == [unref_zero |-> FALSE, freed_access |-> FALSE,
            unlocked_access |-> FALSE, locked_io |-> FALSE,
            bad_unlock |-> FALSE]
NoRet == [op |-> "none"]
NoFio ==
  /\ sync_ = FALSE
  /\ mutex_ = 0
  /\ fobj = <<>>
  /\ ops = <<>>
  /\ rados = NoRados
  /\ audit = NoAudit
  /\ ret = NoRet

NoProbe ==
  [kind |-> "none", u |-> 0, v |-> W(0), n |-> 0, start |-> 0, ok |-> FALSE,
   u_out |-> 0, v_out |-> W(0), w |-> <<>>]

Keys(kl) == [1..kl -> KeyBytes]

RECURSIVE KeyLess(_, _, _)
\* a < b in the byte order, comparing from byte i on
KeyLess(a, b, i) ==
  IF i > Len(a) THEN FALSE
  ELSE IF a[i] # b[i] THEN a[i] < b[i]
  ELSE KeyLess(a, b, i + 1)

\* the key arrays encode is called with: sorted ascending, duplicates allowed
SortedArrays(kl) ==
  {a \in UNION {[1..m -> Keys(kl)] : m \in 0..MaxKeys} :
     \A i \in 1..(Len(a) - 1) : ~KeyLess(a[i + 1], a[i], 1)}

Distinct(a) == \A i, j \in 1..Len(a) : i # j => a[i] # a[j]

Frame(op, off, n, depth) ==
  [op |-> op, off |-> off, n |-> n, depth |-> depth, start |-> 0]

\* the return of the invocation f, which began at position start
RetFrame(f, start) ==
  [op |-> "ret_" \o f.op, off |-> f.off, n |-> f.n, depth |-> f.depth,
   start |-> start]

Span(f, start, end) ==
  [off |-> f.off, n |-> f.n, depth |-> f.depth, start |-> start, end |-> end]

\* a record of one *_rec step: the invocation, how it ended ("leaf": n <= 1,
\* "block": k-perfect hashing, "abort": a failed assert, "split": a symbol
\* was written or read and the children called, "unchecked": the children
\* called with left > n, "eof": the input ended, "wild": a symbol outside the
\* table was handed to huffman::encode), the symbol as a word, the
\* position it was written or read at, the branch locate_rec took, and the
\* key bit read (locate_rec) or the scan's result (encode_rec)
NoStep ==
  [op |-> "none", off |-> 0, n |-> 0, depth |-> 0, kind |-> "none",
   left |-> W(0), pos |-> 0, branch |-> "none", bit |-> 0]

Step(f, kind, left, pos, branch, bit) ==
  [op |-> f.op, off |-> f.off, n |-> f.n, depth |-> f.depth, kind |-> kind,
   left |-> left, pos |-> pos, branch |-> branch, bit |-> bit]

RECURSIVE Unwind(_, _)
\* the invocations that return once the innermost one has, at position pos
Unwind(stk, pos) ==
  IF stk = <<>> \/ Head(stk).op \notin {"ret_encode", "ret_skip"}
  THEN [stack |-> stk, enc |-> {}, skip |-> {}]
  ELSE LET r == Unwind(Tail(stk), pos)
           s == Span(Head(stk), Head(stk).start, pos)
       IN  IF Head(stk).op = "ret_encode"
           THEN [stack |-> r.stack, enc |-> r.enc \cup {s}, skip |-> r.skip]
           ELSE [stack |-> r.stack, enc |-> r.enc, skip |-> r.skip \cup {s}]

(***************************************************************************)
(* The k-perfect hashing test of encode_rec, locate_rec and skip_rec.       *)
(***************************************************************************)
\* the test without the comparison of the two blocks
BlockUniformLoose(base, kpb, off, n) == n <= kpb

BlockUniformOffByOne(base, kpb, off, n) ==
  /\ n <= kpb
  /\ (base + off) \div kpb = (base + off + n) \div kpb

BlockUniform(base, kpb, off, n) ==
  /\ n <= kpb
  /\ (base + off) \div kpb = (base + off + n - 1) \div kpb

RECURSIVE ScanLeftInverted(_, _, _, _, _)
ScanLeftInverted(a, off, n, depth, left) ==
  IF left < n /\ BitGet(a[off + left + 1], depth) = 1
  THEN ScanLeftInverted(a, off, n, depth, left + 1)
  ELSE left

\* a scan that looks at the first key of the range only
ScanLeftFirstKey(a, off, n, depth, left) ==
  IF BitGet(a[off + 1], depth) = 0 THEN 1 ELSE 0

RECURSIVE ScanLeft(_, _, _, _, _)
\* the loop of trie.h:118-122, from `left` on
ScanLeft(a, off, n, depth, left) ==
  IF left < n /\ BitGet(a[off + left + 1], depth) = 0
  THEN ScanLeft(a, off, n, depth, left + 1)
  ELSE left

\* `left` after the loop; at depth >= key_len * 8 each bit_access::get reads
\* past the key's last byte, and the loop may stop anywhere
LeftChoices(a, kl, off, n, depth) ==
  IF depth < kl * 8 THEN {ScanLeft(a, off, n, depth, 0)} ELSE 0..n

\* left = n rewritten to 1
WeakRewriteToOne(weak, left, n) == IF weak /\ left = n THEN 1 ELSE left

\* no rewrite of left = n
WeakRewriteNone(weak, left, n) == left

\* trie.h:125
WeakRewrite(weak, left, n) == IF weak /\ left = n THEN 0 ELSE left

\* trie.h:133-134: the exp-Golomb code of sign_interleave(left - n / 2)
GolombLeftUncentred(left, n) ==
  GolombEncode(WVal(SignEncode(W(left))))

GolombLeft(left, n) ==
  GolombEncode(WVal(SignEncode(WSub(W(left), W(n \div 2)))))

\* the exp-Golomb code at every size
LeftCodeGolombOnly(tables, limit, left, n) == GolombLeft(left, n)

\* trie.h:128-134: the bits written for `left` at a range of size n
LeftCode(tables, limit, left, n) ==
  IF n <= limit THEN HuffmanEncode(tables[n], left) ELSE GolombLeft(left, n)

\* trie.h:165-167: sign_interleave::decode(u) + n / 2, in size_t
LeftFromGolombUncentred(u, n) == SignDecode(W(u))

\* the sign bit dropped: (u >> 1) + n / 2
LeftFromGolombUnsigned(u, n) == WAdd(WShr1(W(u)), W(n \div 2))

LeftFromGolomb(u, n) == WAdd(SignDecode(W(u)), W(n \div 2))

\* trie.h:160-167 and 201-208: `left` decoded at a range of size n with the
\* cursor at `it`, as [ok, left, iter]; ok is FALSE when buf ends first
DecodeLeft(tables, limit, buf, it, n) ==
  IF n <= limit
  THEN LET d == HuffmanDecode(tables[n], buf, it)
       IN  [ok |-> d.ok, left |-> W(d.value), iter |-> d.iter]
  ELSE LET g == GolombDecode(buf, it)
       IN  [ok |-> g.ok, left |-> LeftFromGolomb(g.value, n), iter |-> g.iter]

\* bit_access::get(key, depth) of trie.h:172; at depth >= key_len * 8 it
\* reads past the key's last byte
KeyBitChoices(k, kl, depth) ==
  IF depth < kl * 8 THEN {BitGet(k, depth)} ELSE {0, 1}

\* trie.h:172-173
FollowLeftAlways(weak, bit, left) == bit = 0

FollowLeft(weak, bit, left) ==
  bit = 0 /\ (~weak \/ (weak /\ left # 0))

(***************************************************************************)
(* Initial states: a constructed codec and the arguments of the calls.      *)
(***************************************************************************)
Init ==
  /\ WeakOrdering \in BOOLEAN
  /\ HuffmanCodingLimit \in HuffmanCodingLimits
  /\ NDEBUG \in BOOLEAN
  /\ huff_ = Construct(WeakOrdering, HuffmanCodingLimit)
  /\ key_len \in KeyLens
  /\ arr \in SortedArrays(key_len)
  /\ off0 = 0
  /\ n0 = Len(arr)
  /\ dest_base \in DestBases
  /\ dest_keys_per_block \in DestKeysPerBlock
  /\ out_buf = <<>>
  /\ in_buf = <<>>
  /\ iter = 0
  /\ key = [i \in 1..key_len |-> 0]
  /\ stack = <<>>
  /\ rank = 0
  /\ pc = "idle"
  /\ err = "none"
  /\ last = NoStep
  /\ enc_log = {}
  /\ enc_span = {}
  /\ skip_done = {}
  /\ probe = NoProbe
  /\ dist = NoDist
  /\ rebuild = NoRebuild
  /\ threads = NoThreads
  /\ NoFio

(***************************************************************************)
(* trie::encode (trie.h:84-90)                                              *)
(***************************************************************************)
EncodeCall ==
  /\ pc = "idle"
  /\ stack' = <<Frame("encode", off0, n0, 0)>>
  /\ pc' = "encode"
  /\ UNCHANGED <<params, huff_, out_buf, in_buf, iter, key, rank, err, last,
                 enc_log, enc_span, skip_done>>

(***************************************************************************)
(* trie::encode_rec (trie.h:102-140): one invocation, to its recursive      *)
(* calls.                                                                   *)
(***************************************************************************)
EncodeRec ==
  /\ pc = "encode"
  /\ LET f == Head(stack)
         pos == Len(out_buf)
     IN  IF f.n <= 1 \/ BlockUniform(dest_base, dest_keys_per_block, f.off, f.n)
         THEN LET r == Unwind(Tail(stack), pos)
              IN  /\ stack' = r.stack
                  /\ enc_span' = enc_span \cup {Span(f, pos, pos)} \cup r.enc
                  /\ pc' = IF r.stack = <<>> THEN "encoded" ELSE "encode"
                  /\ last' = Step(f, IF f.n <= 1 THEN "leaf" ELSE "block",
                                  W(0), pos, "none", 0)
                  /\ UNCHANGED <<out_buf, enc_log, err>>
         ELSE IF f.depth >= key_len * 8 /\ ~NDEBUG
         THEN /\ pc' = "abort"
              /\ err' = "InvalidInput"
              /\ last' = Step(f, "abort", W(0), pos, "none", 0)
              /\ UNCHANGED <<stack, out_buf, enc_log, enc_span>>
         ELSE /\ f.depth < key_len * 8 + MaxOverrun
              /\ \E scanned \in LeftChoices(arr, key_len, f.off, f.n, f.depth) :
                   LET left == WeakRewrite(WeakOrdering, scanned, f.n)
                   IN  IF /\ f.n <= HuffmanCodingLimit
                          /\ left \notin DOMAIN huff_[f.n]
                       THEN \* huffman::encode of a symbol the table lacks
                            /\ pc' = "wild"
                            /\ last' = Step(f, "wild", W(left), pos, "none",
                                            scanned)
                            /\ UNCHANGED <<stack, out_buf, enc_log, enc_span,
                                           err>>
                       ELSE
                       /\ out_buf' = out_buf \o
                            LeftCode(huff_, HuffmanCodingLimit, left, f.n)
                       /\ enc_log' = enc_log \cup
                            {[off |-> f.off, n |-> f.n, depth |-> f.depth,
                              pos |-> pos, left |-> left]}
                       /\ stack' =
                            <<Frame("encode", f.off, left, f.depth + 1),
                              Frame("encode", f.off + left, f.n - left,
                                    f.depth + 1),
                              RetFrame(f, pos)>> \o Tail(stack)
                       /\ last' = Step(f, "split", W(left), pos, "none",
                                       scanned)
                       /\ UNCHANGED <<pc, err, enc_span>>
  /\ UNCHANGED <<params, huff_, in_buf, iter, key, rank, skip_done>>

(***************************************************************************)
(* trie::locate (trie.h:92-99) with the cursor at the start of the input:   *)
(* the bits encode produced, or the stream given.                           *)
(***************************************************************************)
LocateCall ==
  /\ pc \in {"encoded", "stream"}
  /\ \E k \in Keys(key_len) : key' = k
  /\ in_buf' = IF pc = "encoded" THEN out_buf ELSE in_buf
  /\ iter' = 0
  /\ rank' = 0
  /\ stack' = <<Frame("locate", off0, n0, 0)>>
  /\ pc' = "locate"
  /\ last' = NoStep
  /\ UNCHANGED <<params, huff_, out_buf, err, enc_log, enc_span, skip_done>>

(***************************************************************************)
(* trie::locate_rec (trie.h:142-183): one invocation, to its calls of       *)
(* skip_rec and locate_rec.                                                 *)
(***************************************************************************)
LocateRec ==
  /\ pc = "locate"
  /\ Head(stack).op = "locate"
  /\ LET f == Head(stack)
     IN  IF f.n <= 1 \/ BlockUniform(dest_base, dest_keys_per_block, f.off, f.n)
         THEN LET r == Unwind(Tail(stack), iter)
              IN  /\ stack' = r.stack
                  /\ skip_done' = r.skip
                  /\ pc' = IF r.stack = <<>> THEN "done" ELSE "locate"
                  /\ last' = Step(f, IF f.n <= 1 THEN "leaf" ELSE "block",
                                  W(0), iter, "none", 0)
                  /\ UNCHANGED <<iter, rank, err>>
         ELSE IF f.depth >= key_len * 8 /\ ~NDEBUG
         THEN /\ pc' = "abort"
              /\ err' = "Corruption"
              /\ last' = Step(f, "abort", W(0), iter, "none", 0)
              /\ skip_done' = {}
              /\ UNCHANGED <<stack, iter, rank>>
         ELSE /\ f.depth < key_len * 8 + MaxOverrun
              /\ skip_done' = {}
              /\ LET d == DecodeLeft(huff_, HuffmanCodingLimit, in_buf, iter,
                                     f.n)
                 IN
                   /\ iter' = d.iter
                   /\ IF ~d.ok
                      THEN /\ pc' = "eof"
                           /\ last' = Step(f, "eof", W(0), iter, "none", 0)
                           /\ UNCHANGED <<stack, rank, err>>
                      ELSE IF ~WLe(d.left, W(f.n))
                      THEN IF ~NDEBUG
                           THEN /\ pc' = "abort"
                                /\ err' = "Corruption"
                                /\ last' = Step(f, "abort", d.left, iter,
                                                "none", 0)
                                /\ UNCHANGED <<stack, rank>>
                           ELSE /\ pc' = "continued"
                                /\ last' = Step(f, "unchecked", d.left, iter,
                                                "none", 0)
                                /\ UNCHANGED <<stack, rank, err>>
                      ELSE \E bit \in KeyBitChoices(key, key_len, f.depth) :
                             LET left == WVal(d.left)
                             IN  IF FollowLeft(WeakOrdering, bit, left)
                                 THEN /\ stack' =
                                           <<Frame("locate", f.off, left,
                                                   f.depth + 1)>>
                                           \o Tail(stack)
                                      /\ last' = Step(f, "split", d.left, iter,
                                                      "left", bit)
                                      /\ UNCHANGED <<rank, pc, err>>
                                 ELSE /\ stack' =
                                           <<Frame("skip", f.off, left,
                                                   f.depth + 1),
                                             Frame("locate", f.off + left,
                                                   f.n - left, f.depth + 1)>>
                                           \o Tail(stack)
                                      /\ rank' = rank + left
                                      /\ last' = Step(f, "split", d.left, iter,
                                                      "right", bit)
                                      /\ UNCHANGED <<pc, err>>
  /\ UNCHANGED <<params, huff_, out_buf, in_buf, key, enc_log, enc_span>>

(***************************************************************************)
(* trie::skip_rec (trie.h:185-215): one invocation, to its recursive calls. *)
(***************************************************************************)
SkipRec ==
  /\ pc = "locate"
  /\ Head(stack).op = "skip"
  /\ LET f == Head(stack)
     IN  IF f.n <= 1 \/ BlockUniform(dest_base, dest_keys_per_block, f.off, f.n)
         THEN LET r == Unwind(Tail(stack), iter)
              IN  /\ stack' = r.stack
                  /\ skip_done' = {Span(f, iter, iter)} \cup r.skip
                  /\ pc' = IF r.stack = <<>> THEN "done" ELSE "locate"
                  /\ last' = Step(f, IF f.n <= 1 THEN "leaf" ELSE "block",
                                  W(0), iter, "none", 0)
                  /\ UNCHANGED <<iter, err>>
         ELSE /\ f.depth < key_len * 8 + MaxOverrun
              /\ skip_done' = {}
              /\ LET d == DecodeLeft(huff_, HuffmanCodingLimit, in_buf, iter,
                                     f.n)
                 IN
                   /\ iter' = d.iter
                   /\ IF ~d.ok
                      THEN /\ pc' = "eof"
                           /\ last' = Step(f, "eof", W(0), iter, "none", 0)
                           /\ UNCHANGED <<stack, err>>
                      ELSE IF ~WLe(d.left, W(f.n))
                      THEN IF ~NDEBUG
                           THEN /\ pc' = "abort"
                                /\ err' = "Corruption"
                                /\ last' = Step(f, "abort", d.left, iter,
                                                "none", 0)
                                /\ UNCHANGED stack
                           ELSE /\ pc' = "continued"
                                /\ last' = Step(f, "unchecked", d.left, iter,
                                                "none", 0)
                                /\ UNCHANGED <<stack, err>>
                      ELSE LET left == WVal(d.left)
                           IN  /\ stack' =
                                    <<Frame("skip", f.off, left, f.depth + 1),
                                      Frame("skip", f.off + left, f.n - left,
                                            f.depth + 1),
                                      RetFrame(f, iter)>> \o Tail(stack)
                               /\ last' = Step(f, "split", d.left, iter,
                                               "none", 0)
                               /\ UNCHANGED <<pc, err>>
  /\ UNCHANGED <<params, huff_, out_buf, in_buf, key, rank, enc_log,
                 enc_span>>

Next == EncodeCall \/ EncodeRec \/ LocateCall \/ LocateRec \/ SkipRec

Spec == Init /\ [][Next]_vars

(***************************************************************************)
(* trie::recreate_huffman_from_dist (trie.h:59-75), one loop iteration a    *)
(* step.  Between `delete huff_[n - 2]` and the next assignment to the slot *)
(* the pointer dangles: the slot holds FreedTable.                          *)
(***************************************************************************)
\* the distributions handed to recreate_huffman_from_dist, by the shape of
\* their weights
DistShapes == {"flat", "rising", "point"}

\* dist[n][k], the weight of symbol k at size n
DistWeight(shape, n, k) ==
  CASE shape = "flat" -> 1
    [] shape = "rising" -> k + 1
    [] shape = "point" -> IF k = 0 THEN 1 ELSE 0

Dist(shape) ==
  [n \in 2..16 |-> [k \in 1..(n + 1) |-> DistWeight(shape, n, k - 1)]]

FreedTable == <<>>

\* trie.h:66-73, the body of the second loop for one n, without the copy of
\* the weights
RebuildTableShort(d, n) == HuffmanGenerate(SubSeq(d[n], 1, n))

RebuildTable(d, n) ==
  HuffmanGenerate([k \in 1..(n + 1) |-> d[n][k]])

\* trie.h:60 and the entry of the first loop
RecreateCall ==
  /\ pc = "idle"
  /\ rebuild.phase = "none"
  /\ IF WeakOrdering /\ ~NDEBUG
     THEN /\ pc' = "abort"
          /\ err' = "InvalidState"
          /\ UNCHANGED rebuild
     ELSE /\ pc' = "rebuild"
          /\ rebuild' = [phase |-> "delete", n |-> 2,
                         slots |-> [n \in 2..HuffmanCodingLimit |-> "old"]]
          /\ UNCHANGED err
  /\ UNCHANGED <<WeakOrdering, HuffmanCodingLimit, NDEBUG, huff_, arr, key_len,
                 off0, n0, dest_base, dest_keys_per_block, out_buf, in_buf,
                 iter, key, stack, rank, last, enc_log, enc_span, skip_done,
                 probe, dist, threads, fio_vars>>

\* trie.h:62, one iteration
RecreateDelete ==
  /\ pc = "rebuild"
  /\ rebuild.phase = "delete"
  /\ huff_' = [huff_ EXCEPT ![rebuild.n] = FreedTable]
  /\ rebuild' =
       [phase |-> IF rebuild.n = HuffmanCodingLimit THEN "build" ELSE "delete",
        n |-> IF rebuild.n = HuffmanCodingLimit THEN 2 ELSE rebuild.n + 1,
        slots |-> [rebuild.slots EXCEPT ![rebuild.n] = "freed"]]
  /\ UNCHANGED <<WeakOrdering, HuffmanCodingLimit, NDEBUG, arr, key_len, off0,
                 n0, dest_base, dest_keys_per_block, out_buf, in_buf, iter,
                 key, stack, rank, pc, err, last, enc_log, enc_span,
                 skip_done, probe, dist, threads, fio_vars>>

\* trie.h:64-74, one iteration; the call returns after the last one
RecreateBuild ==
  /\ pc = "rebuild"
  /\ rebuild.phase = "build"
  /\ huff_' = [huff_ EXCEPT ![rebuild.n] = RebuildTable(dist, rebuild.n)]
  /\ rebuild' =
       [phase |-> IF rebuild.n = HuffmanCodingLimit THEN "done" ELSE "build",
        n |-> IF rebuild.n = HuffmanCodingLimit THEN 0 ELSE rebuild.n + 1,
        slots |-> [rebuild.slots EXCEPT ![rebuild.n] = "new"]]
  /\ pc' = IF rebuild.n = HuffmanCodingLimit THEN "idle" ELSE "rebuild"
  /\ UNCHANGED <<WeakOrdering, HuffmanCodingLimit, NDEBUG, arr, key_len, off0,
                 n0, dest_base, dest_keys_per_block, out_buf, in_buf, iter,
                 key, stack, rank, err, last, enc_log, enc_span, skip_done,
                 probe, dist, threads, fio_vars>>

\* a constructed codec, a distribution, and a sorted array of distinct keys
InitRebuild ==
  /\ WeakOrdering \in BOOLEAN
  /\ HuffmanCodingLimit \in HuffmanCodingLimits
  /\ NDEBUG \in BOOLEAN
  /\ huff_ = Construct(WeakOrdering, HuffmanCodingLimit)
  /\ key_len \in KeyLens
  /\ arr \in {a \in SortedArrays(key_len) : Distinct(a)}
  /\ off0 = 0
  /\ n0 = Len(arr)
  /\ dest_base = 0
  /\ dest_keys_per_block \in {1, 2}
  /\ out_buf = <<>>
  /\ in_buf = <<>>
  /\ iter = 0
  /\ key = [i \in 1..key_len |-> 0]
  /\ stack = <<>>
  /\ rank = 0
  /\ pc = "idle"
  /\ err = "none"
  /\ last = NoStep
  /\ enc_log = {}
  /\ enc_span = {}
  /\ skip_done = {}
  /\ probe = NoProbe
  /\ dist \in {Dist(shape) : shape \in DistShapes}
  /\ rebuild = NoRebuild
  /\ threads = NoThreads
  /\ NoFio

NextRebuild ==
  \/ RecreateCall \/ RecreateDelete \/ RecreateBuild
  \/ EncodeCall \/ EncodeRec \/ LocateCall \/ LocateRec \/ SkipRec

SpecRebuild == InitRebuild /\ [][NextRebuild]_vars

(***************************************************************************)
(* Several threads calling encode and locate on one codec (both are const   *)
(* member functions, trie.h:84-99).  The variables of a call (its           *)
(* arguments, buffers, cursor and stack) are those of the thread that runs; *)
(* the calls of the other threads are kept in threads.saved, and Switch     *)
(* hands the processor to another thread between two *_rec invocations.     *)
(* Only the template parameters and huff_ are shared.                       *)
(***************************************************************************)
ThreadIds == {1, 2}

\* the key arrays the threads encode
ThreadArrays ==
  {<<<<0>>, <<16>>>>,
   <<<<1>>, <<128>>, <<144>>>>,
   <<<<0>>, <<16>>, <<128>>, <<144>>>>}

\* the call the running thread is in
Running ==
  [arr |-> arr, key_len |-> key_len, off0 |-> off0, n0 |-> n0,
   dest_base |-> dest_base, dest_keys_per_block |-> dest_keys_per_block,
   out_buf |-> out_buf, in_buf |-> in_buf, iter |-> iter, key |-> key,
   stack |-> stack, rank |-> rank, pc |-> pc, err |-> err, last |-> last,
   enc_log |-> enc_log, enc_span |-> enc_span, skip_done |-> skip_done]

\* a thread about to call encode on the array a
FreshCall(a, kl, kpb) ==
  [arr |-> a, key_len |-> kl, off0 |-> 0, n0 |-> Len(a),
   dest_base |-> 0, dest_keys_per_block |-> kpb,
   out_buf |-> <<>>, in_buf |-> <<>>, iter |-> 0,
   key |-> [i \in 1..kl |-> 0],
   stack |-> <<>>, rank |-> 0, pc |-> "idle", err |-> "none", last |-> NoStep,
   enc_log |-> {}, enc_span |-> {}, skip_done |-> {}]

\* the entry of threads.saved for the thread that runs
NoCall == [pc |-> "running"]

\* in_out_buf_iter is the caller's own (trie.h:93): a thread that resumes
\* finds its cursor as it left it
SharedCursor(c) == iter

OwnCursor(c) == c.iter

Switch(t) ==
  /\ t # threads.self
  /\ LET c == threads.saved[t]
     IN  /\ arr' = c.arr
         /\ key_len' = c.key_len
         /\ off0' = c.off0
         /\ n0' = c.n0
         /\ dest_base' = c.dest_base
         /\ dest_keys_per_block' = c.dest_keys_per_block
         /\ out_buf' = c.out_buf
         /\ in_buf' = c.in_buf
         /\ iter' = OwnCursor(c)
         /\ key' = c.key
         /\ stack' = c.stack
         /\ rank' = c.rank
         /\ pc' = c.pc
         /\ err' = c.err
         /\ last' = c.last
         /\ enc_log' = c.enc_log
         /\ enc_span' = c.enc_span
         /\ skip_done' = c.skip_done
  /\ threads' = [self |-> t,
                 saved |-> [threads.saved EXCEPT ![threads.self] = Running,
                                                 ![t] = NoCall]]
  /\ UNCHANGED <<WeakOrdering, HuffmanCodingLimit, NDEBUG, huff_, probe, dist,
                 rebuild, fio_vars>>

SwitchThread == \E t \in ThreadIds : Switch(t)

InitThreads ==
  /\ WeakOrdering \in BOOLEAN
  /\ HuffmanCodingLimit \in HuffmanCodingLimits
  /\ NDEBUG = FALSE
  /\ huff_ = Construct(WeakOrdering, HuffmanCodingLimit)
  /\ key_len \in KeyLens
  /\ arr \in ThreadArrays
  /\ off0 = 0
  /\ n0 = Len(arr)
  /\ dest_base = 0
  /\ dest_keys_per_block \in {1, 2}
  /\ out_buf = <<>>
  /\ in_buf = <<>>
  /\ iter = 0
  /\ key = [i \in 1..key_len |-> 0]
  /\ stack = <<>>
  /\ rank = 0
  /\ pc = "idle"
  /\ err = "none"
  /\ last = NoStep
  /\ enc_log = {}
  /\ enc_span = {}
  /\ skip_done = {}
  /\ probe = NoProbe
  /\ dist = NoDist
  /\ rebuild = NoRebuild
  /\ \E a \in ThreadArrays :
       threads =
         [self |-> 1,
          saved |-> [t \in ThreadIds |->
                       IF t = 1 THEN NoCall
                       ELSE FreshCall(a, key_len, dest_keys_per_block)]]
  /\ NoFio

NextThreads ==
  EncodeCall \/ EncodeRec \/ LocateCall \/ LocateRec \/ SkipRec \/ SwitchThread

SpecThreads == InitThreads /\ [][NextThreads]_vars

(***************************************************************************)
(* locate on an arbitrary input stream: no encode went before.  The streams *)
(* are the bit sequences of StreamLen bits with at most MaxFlips changes    *)
(* between neighbouring bits.                                               *)
(***************************************************************************)
StreamLen == 18
MaxFlips == 2

\* the streams of len bits that begin with `bit` and change at the places
\* `at` (each the count of bits before a change)
RunsFrom(len, bit, at) ==
  [i \in 1..len |-> (bit + Cardinality({c \in at : c < i})) % 2]

Streams ==
  {RunsFrom(StreamLen, bit, at) :
     bit \in {0, 1},
     at \in {c \in SUBSET (1..(StreamLen - 1)) : Cardinality(c) <= MaxFlips}}

InitStream ==
  /\ WeakOrdering \in BOOLEAN
  /\ HuffmanCodingLimit \in HuffmanCodingLimits
  /\ NDEBUG \in BOOLEAN
  /\ huff_ = Construct(WeakOrdering, HuffmanCodingLimit)
  /\ key_len \in KeyLens
  /\ arr = <<>>
  /\ off0 = 0
  /\ n0 \in 2..MaxKeys
  /\ dest_base = 0
  /\ dest_keys_per_block \in {1, 2}
  /\ out_buf = <<>>
  /\ in_buf \in Streams
  /\ iter = 0
  /\ key = [i \in 1..key_len |-> 0]
  /\ stack = <<>>
  /\ rank = 0
  /\ pc = "stream"
  /\ err = "none"
  /\ last = NoStep
  /\ enc_log = {}
  /\ enc_span = {}
  /\ skip_done = {}
  /\ probe = NoProbe
  /\ dist = NoDist
  /\ rebuild = NoRebuild
  /\ threads = NoThreads
  /\ NoFio

NextStream == LocateCall \/ LocateRec \/ SkipRec

SpecStream == InitStream /\ [][NextStream]_vars

(***************************************************************************)
(* The coders on their own: one value written to a buffer and read back.    *)
(***************************************************************************)
\* largest magnitude of a signed value handed to sign_interleave on its own
MaxSigned == 20

\* v as a size_t (two's complement)
SignedWord(v) == IF v >= 0 THEN W(v) ELSE WSub(W(0), W(-v))

\* range sizes beyond HuffmanCodingLimit handed to the Golomb path on its
\* own: the next MaxWide sizes and two larger ones
MaxWide == 6
WideRanges == {64, 257}

\* what the buffer holds before the value is written, and after it
BufferPrefixes == {<<>>, <<1>>, <<0, 0>>}
BufferTails == {<<>>, <<0>>, <<1, 0>>}

Probes(tables) ==
  {[NoProbe EXCEPT !.kind = "golomb", !.u = u] : u \in 0..MaxGolomb}
  \cup {[NoProbe EXCEPT !.kind = "sign", !.v = SignedWord(v)] :
          v \in (-MaxSigned)..MaxSigned}
  \cup UNION {{[NoProbe EXCEPT !.kind = "huffman", !.n = n, !.u = sym] :
                 sym \in DOMAIN tables[n]} : n \in DOMAIN tables}
  \cup {[NoProbe EXCEPT !.kind = "weights", !.n = n] : n \in 2..16}
  \cup UNION {{[NoProbe EXCEPT !.kind = "left", !.n = n, !.u = left] :
                 left \in 0..n} :
               n \in ((HuffmanCodingLimit + 1)..(HuffmanCodingLimit + MaxWide))
                       \cup WideRanges}

InitCodec ==
  /\ WeakOrdering \in BOOLEAN
  /\ HuffmanCodingLimit \in HuffmanCodingLimits
  /\ NDEBUG = FALSE
  /\ huff_ = Construct(WeakOrdering, HuffmanCodingLimit)
  /\ key_len \in KeyLens
  /\ arr = <<>>
  /\ off0 = 0
  /\ n0 = 0
  /\ dest_base = 0
  /\ dest_keys_per_block = 1
  /\ out_buf \in BufferPrefixes
  /\ in_buf = <<>>
  /\ iter = 0
  /\ key = [i \in 1..key_len |-> 0]
  /\ stack = <<>>
  /\ rank = 0
  /\ pc = "probe"
  /\ err = "none"
  /\ last = NoStep
  /\ enc_log = {}
  /\ enc_span = {}
  /\ skip_done = {}
  /\ probe \in Probes(huff_)
  /\ dist = NoDist
  /\ rebuild = NoRebuild
  /\ threads = NoThreads
  /\ NoFio

codec_frame == <<WeakOrdering, HuffmanCodingLimit, NDEBUG, huff_, arr, key_len,
                 off0, n0, dest_base, dest_keys_per_block, key, stack, rank,
                 err, last, enc_log, enc_span, skip_done, dist, rebuild,
                 threads, fio_vars>>

\* exp_golomb<>::encode<size_t>(out_buf, u)
GolombWrite ==
  /\ pc = "probe"
  /\ probe.kind = "golomb"
  /\ out_buf' = out_buf \o GolombEncode(probe.u)
  /\ probe' = [probe EXCEPT !.start = Len(out_buf)]
  /\ pc' = "written"
  /\ UNCHANGED <<codec_frame, in_buf, iter>>

\* exp_golomb<>::decode<size_t>(in_buf, iter), with the cursor where the
\* value was written
GolombRead ==
  /\ pc = "written"
  /\ probe.kind = "golomb"
  /\ \E tail \in BufferTails :
       LET d == GolombDecode(out_buf \o tail, probe.start)
       IN  /\ in_buf' = out_buf \o tail
           /\ iter' = d.iter
           /\ probe' = [probe EXCEPT !.ok = d.ok, !.u_out = d.value]
  /\ pc' = "read"
  /\ UNCHANGED <<codec_frame, out_buf>>

\* sign_interleave::decode<size_t>(sign_interleave::encode<size_t>(v))
SignRoundTrip ==
  /\ pc = "probe"
  /\ probe.kind = "sign"
  /\ probe' = [probe EXCEPT !.ok = TRUE,
                            !.u_out = WVal(SignEncode(probe.v)),
                            !.v_out = SignDecode(SignEncode(probe.v))]
  /\ pc' = "read"
  /\ UNCHANGED <<codec_frame, out_buf, in_buf, iter>>

\* huff_[n - 2]->encode(out_buf, symbol)
HuffmanWrite ==
  /\ pc = "probe"
  /\ probe.kind = "huffman"
  /\ out_buf' = out_buf \o HuffmanEncode(huff_[probe.n], probe.u)
  /\ probe' = [probe EXCEPT !.start = Len(out_buf)]
  /\ pc' = "written"
  /\ UNCHANGED <<codec_frame, in_buf, iter>>

\* huff_[n - 2]->decode(in_buf, iter), with the cursor where the symbol was
\* written
HuffmanRead ==
  /\ pc = "written"
  /\ probe.kind = "huffman"
  /\ \E tail \in BufferTails :
       LET d == HuffmanDecode(huff_[probe.n], out_buf \o tail, probe.start)
       IN  /\ in_buf' = out_buf \o tail
           /\ iter' = d.iter
           /\ probe' = [probe EXCEPT !.ok = d.ok, !.u_out = d.value]
  /\ pc' = "read"
  /\ UNCHANGED <<codec_frame, out_buf>>

\* trie.h:33-37 and 44-49: the weights the constructor hands to the
\* generator for size n
WeightsBuild ==
  /\ pc = "probe"
  /\ probe.kind = "weights"
  /\ probe' = [probe EXCEPT !.ok = TRUE, !.w = Weights(WeakOrdering, probe.n)]
  /\ pc' = "read"
  /\ UNCHANGED <<codec_frame, out_buf, in_buf, iter>>

\* trie.h:131-134: `left` written at a range of n > HuffmanCodingLimit keys
LeftWrite ==
  /\ pc = "probe"
  /\ probe.kind = "left"
  /\ out_buf' = out_buf \o LeftCode(huff_, HuffmanCodingLimit, probe.u, probe.n)
  /\ probe' = [probe EXCEPT !.start = Len(out_buf)]
  /\ pc' = "written"
  /\ UNCHANGED <<codec_frame, in_buf, iter>>

\* trie.h:163-167 and 204-208: `left` read back at the same range, with the
\* cursor where it was written
LeftRead ==
  /\ pc = "written"
  /\ probe.kind = "left"
  /\ \E tail \in BufferTails :
       LET d == DecodeLeft(huff_, HuffmanCodingLimit, out_buf \o tail,
                           probe.start, probe.n)
       IN  /\ in_buf' = out_buf \o tail
           /\ iter' = d.iter
           /\ probe' = [probe EXCEPT !.ok = d.ok, !.v_out = d.left]
  /\ pc' = "read"
  /\ UNCHANGED <<codec_frame, out_buf>>

NextCodec ==
  \/ GolombWrite \/ GolombRead \/ SignRoundTrip \/ HuffmanWrite \/ HuffmanRead
  \/ WeightsBuild \/ LeftWrite \/ LeftRead

SpecCodec == InitCodec /\ [][NextCodec]_vars

(***************************************************************************)
(* Properties.                                                              *)
(***************************************************************************)
\* the invocation about to run
Top == Head(stack)

\* the invocation about to run neither returns at n <= 1 nor is cut short
\* by k-perfect hashing
TopSplits ==
  /\ stack # <<>>
  /\ Top.op \in {"encode", "locate", "skip"}
  /\ Top.n > 1
  /\ ~(/\ Top.n <= dest_keys_per_block
       /\ (dest_base + Top.off) \div dest_keys_per_block =
            (dest_base + Top.off + Top.n - 1) \div dest_keys_per_block)

\* a locate_rec or skip_rec step that decoded a symbol
Decoded ==
  /\ last.op \in {"locate", "skip"}
  /\ last.kind \in {"split", "unchecked"}

\* C1: in non-weak mode with dest_keys_per_block = 1, for a sorted array of
\* pairwise distinct keys encoded over [0, n), neither encode nor locate
\* fails, and locate of a key of the array returns that key's index
RoundTripExact ==
  (~WeakOrdering /\ dest_keys_per_block = 1 /\ off0 = 0 /\ Distinct(arr))
    => /\ pc \notin {"abort", "eof", "continued"}
       /\ (pc = "done") =>
            \A i \in 1..Len(arr) : arr[i] = key => rank = i - 1

\* the example of the specification: keys 0x00 0x10 0x80 0x90, locate(0x80)
RoundTripExample ==
  /\ ~WeakOrdering /\ dest_keys_per_block = 1 /\ off0 = 0
  /\ arr = <<<<0>>, <<16>>, <<128>>, <<144>>>>
  /\ key = <<128>>
  /\ pc = "done"
  /\ rank = 2

\* C2: an invocation whose range [off, off + n) lies in one destination
\* block, (dest_base + off) / dest_keys_per_block = (dest_base + off + n - 1)
\* / dest_keys_per_block, returns at once at any depth: encode_rec writes no
\* bit, locate_rec and skip_rec leave the cursor where it is, and locate_rec
\* adds nothing to the rank
BlockUniformTruncation ==
  [][(/\ pc \in {"encode", "locate"}
      /\ stack # <<>>
      /\ Top.n >= 1
      /\ (dest_base + Top.off) \div dest_keys_per_block =
           (dest_base + Top.off + Top.n - 1) \div dest_keys_per_block)
       => /\ out_buf' = out_buf
          /\ enc_log' = enc_log
          /\ iter' = iter
          /\ rank' = rank
          /\ err' = err
          /\ pc' \in {"encode", "encoded", "locate", "done"}
          /\ stack' = Unwind(Tail(stack), IF pc = "encode" THEN Len(out_buf)
                                          ELSE iter).stack]_vars

\* locate_rec returned at a range of two or more keys in one block, below
\* the root, after bits were read
BlockUniformReached ==
  /\ last.op = "locate"
  /\ last.kind = "block"
  /\ last.n >= 2
  /\ last.depth >= 1
  /\ iter > 0

\* C3: encoding an array with two identical keys, none of them hidden by a
\* block of two or more keys, ends with InvalidInput; encode_rec never
\* scans a range at depth >= key_len * 8
DuplicateKeysReported ==
  /\ (dest_keys_per_block = 1 /\ ~Distinct(arr) /\ pc \notin {"idle", "encode"})
       => (pc = "abort" /\ err = "InvalidInput")
  /\ (last.op = "encode" /\ last.depth >= key_len * 8)
       => last.kind \in {"leaf", "block", "abort"}

\* C4: whenever locate_rec or skip_rec decodes left > n, the operation ends
\* with Corruption and calls no child
OversizedSplitReported ==
  (Decoded /\ ~WLe(last.left, W(last.n)))
    => (pc = "abort" /\ err = "Corruption")

\* C5: with assert enabled, neither locate_rec nor skip_rec decodes a symbol
\* at depth >= key_len * 8
DecodeDepthBound ==
  (~NDEBUG /\ last.op \in {"locate", "skip"} /\ last.depth >= key_len * 8)
    => last.kind \in {"none", "leaf", "block", "abort"}

\* C6: every range skip_rec returns from, entered with the cursor at start
\* and left with the cursor at end, is a range encode_rec began at output
\* position start and returned from at output position end
SkipConsumesSubtree == skip_done \subseteq enc_span

\* skip_rec returned from a range encode wrote bits for
SkipAdvanced == \E s \in skip_done : s.end > s.start /\ s.n >= 2

\* C7: on the bits encode produced, every symbol locate_rec or skip_rec
\* decodes at (off, n, depth) with the cursor at pos is the symbol
\* encode_rec wrote at (off, n, depth) at output position pos, and no
\* decode step fails
LockStep ==
  (last.op \in {"locate", "skip"})
    => /\ last.kind \in {"leaf", "block", "split"}
       /\ (last.kind = "split")
            => /\ WSmall(last.left)
               /\ [off |-> last.off, n |-> last.n, depth |-> last.depth,
                   pos |-> last.pos, left |-> WVal(last.left)] \in enc_log

\* locate_rec decoded a symbol of the right subtree of the root, after
\* skipping a left subtree that holds bits
LockStepDeep ==
  /\ last.op = "locate"
  /\ last.kind = "split"
  /\ last.off > 0
  /\ last.pos > 1
  /\ \E e \in enc_log : e.off = 0 /\ e.depth = last.depth /\ e.n >= 2

\* the keys of the invocation's range all have the same bit at its depth
SameBit(f) ==
  \A i, j \in 1..f.n :
    BitGet(arr[f.off + i], f.depth) = BitGet(arr[f.off + j], f.depth)

\* C8: with weak ordering, at a range whose keys share their bit at depth,
\* encode_rec writes symbol 0, and locate_rec, whatever the query bit, calls
\* skip_rec on the empty range [off, off) and continues on [off, off + n) at
\* depth + 1 adding 0 to the rank; and locate_rec takes the left branch only
\* when the query bit is 0 and the decoded left is not 0
WeakCollapse ==
  [][/\ (/\ WeakOrdering
         /\ pc \in {"encode", "locate"}
         /\ TopSplits
         /\ Top.depth < key_len * 8
         /\ SameBit(Top))
          => /\ (Top.op = "encode") =>
                  /\ out_buf' = out_buf \o
                       (IF Top.n <= HuffmanCodingLimit
                        THEN huff_[Top.n][0]
                        ELSE GolombEncode(WVal(SignEncode(
                               SignedWord(0 - (Top.n \div 2))))))
                  /\ last'.left = W(0)
             /\ (Top.op = "locate") =>
                  /\ rank' = rank
                  /\ last'.left = W(0)
                  /\ stack' = <<Frame("skip", Top.off, 0, Top.depth + 1),
                                Frame("locate", Top.off, Top.n, Top.depth + 1)>>
                              \o Tail(stack)
     /\ (WeakOrdering /\ last'.op = "locate" /\ last'.branch = "left")
          => (last'.bit = 0 /\ last'.left # W(0))]_vars

\* locate_rec met a collapsed range of all-0 keys with a query bit of 0
WeakCollapseReached ==
  /\ WeakOrdering
  /\ last.op = "locate"
  /\ last.kind = "split"
  /\ last.depth < key_len * 8
  /\ last.n >= 2
  /\ last.bit = 0
  /\ \A i \in 1..last.n : BitGet(arr[last.off + i], last.depth) = 0
  /\ last.branch = "right"

\* C9: decoding the exp-Golomb code of u returns u and moves the cursor by
\* the number of bits written, whatever precedes and follows the code; and
\* sign_interleave::decode(sign_interleave::encode(v)) = v, the code of
\* v >= 0 being 2v and that of v < 0 being -2v - 1
CodecInverse ==
  (pc = "read")
    => /\ (probe.kind = "golomb")
            => /\ probe.ok
               /\ probe.u_out = probe.u
               /\ iter = Len(out_buf)
               /\ iter > probe.start
       /\ (probe.kind = "sign")
            => /\ probe.v_out = probe.v
               /\ \A v \in 0..MaxSigned :
                    /\ probe.v = SignedWord(v) => probe.u_out = 2 * v
                    /\ (v > 0 /\ probe.v = SignedWord(-v))
                         => probe.u_out = 2 * v - 1

\* a value of three or more bits was read back behind a non-empty prefix
CodecInverseReached ==
  /\ pc = "read"
  /\ probe.kind = "golomb"
  /\ probe.u = 0 \/ probe.u >= 5
  /\ probe.start > 0
  /\ Len(in_buf) > iter

IsPrefixOf(a, b) == Len(a) <= Len(b) /\ SubSeq(b, 1, Len(a)) = a

\* C10: every table the constructor builds has n + 1 symbols (non-weak) or
\* n symbols (weak), no codeword of it is a prefix of another, and decoding
\* the bits written for a symbol returns the symbol and moves the cursor by
\* the codeword's length
HuffmanPrefixCode ==
  /\ DOMAIN huff_ = 2..HuffmanCodingLimit
  /\ \A n \in DOMAIN huff_ :
       /\ DOMAIN huff_[n] = 0..(IF WeakOrdering THEN n - 1 ELSE n)
       /\ \A s, t \in DOMAIN huff_[n] :
            s # t => ~IsPrefixOf(huff_[n][s], huff_[n][t])
  /\ (pc = "read" /\ probe.kind = "huffman")
       => /\ probe.ok
          /\ probe.u_out = probe.u
          /\ iter = Len(out_buf)
          /\ iter > probe.start

\* the last symbol of the largest table was read back
HuffmanPrefixCodeReached ==
  /\ pc = "read"
  /\ probe.kind = "huffman"
  /\ probe.n = 16
  /\ probe.u = 16
  /\ probe.u_out = 16

\* C11: after recreate_huffman_from_dist has returned, in non-weak mode with
\* dest_keys_per_block = 1, encode of a sorted array of pairwise distinct
\* keys and locate with the rebuilt tables fail nowhere, and locate of a key
\* of the array returns that key's index
RoundTripAfterRebuild ==
  (rebuild.phase = "done" /\ ~WeakOrdering /\ dest_keys_per_block = 1)
    => /\ pc \notin {"abort", "eof", "continued", "wild"}
       /\ (pc = "done") =>
            \A i \in 1..Len(arr) : arr[i] = key => rank = i - 1

\* four keys encoded and the third located with tables that differ from the
\* constructor's
RoundTripAfterRebuildReached ==
  /\ rebuild.phase = "done"
  /\ ~WeakOrdering /\ dest_keys_per_block = 1
  /\ HuffmanCodingLimit = 16
  /\ huff_ # Construct(FALSE, 16)
  /\ Len(arr) = 4
  /\ key = arr[3]
  /\ pc = "done"
  /\ rank = 2

\* C12: recreate_huffman_from_dist frees every old table before it builds a
\* new one, so that no state holds an old table next to a new one, and no
\* encode or locate step runs while a slot is freed; once it has returned,
\* every slot n holds the table of n + 1 symbols built from dist[n]; and a
\* codec with weak ordering never enters it
RebuildAllOrNothing ==
  /\ (rebuild.phase # "none") =>
       ~(\E a, b \in DOMAIN rebuild.slots :
           rebuild.slots[a] = "old" /\ rebuild.slots[b] = "new")
  /\ (pc \in {"encode", "locate"}) => rebuild.phase \in {"none", "done"}
  /\ (rebuild.phase = "done") =>
       \A n \in 2..HuffmanCodingLimit :
         /\ DOMAIN huff_[n] = 0..n
         /\ huff_[n] = HuffmanGenerate(dist[n])
  /\ WeakOrdering => rebuild.phase = "none"

(***************************************************************************)
(* A call run alone, from its first invocation to its return: the bits      *)
(* encode_rec writes for a range, the cursor skip_rec returns with, and the *)
(* rank and cursor locate_rec returns with.  c holds the call's arguments.  *)
(***************************************************************************)
RECURSIVE EncodeAlone(_, _, _, _)
EncodeAlone(c, off, n, depth) ==
  IF n <= 1 \/ BlockUniform(c.dest_base, c.dest_keys_per_block, off, n)
  THEN <<>>
  ELSE LET left == WeakRewrite(WeakOrdering,
                               ScanLeft(c.arr, off, n, depth, 0), n)
       IN  LeftCode(huff_, HuffmanCodingLimit, left, n)
             \o EncodeAlone(c, off, left, depth + 1)
             \o EncodeAlone(c, off + left, n - left, depth + 1)

RECURSIVE SkipAlone(_, _, _, _, _)
SkipAlone(c, it, off, n, depth) ==
  IF n <= 1 \/ BlockUniform(c.dest_base, c.dest_keys_per_block, off, n)
  THEN it
  ELSE LET d == DecodeLeft(huff_, HuffmanCodingLimit, c.in_buf, it, n)
           left == WVal(d.left)
       IN  SkipAlone(c, SkipAlone(c, d.iter, off, left, depth + 1),
                     off + left, n - left, depth + 1)

RECURSIVE LocateAlone(_, _, _, _, _)
LocateAlone(c, it, off, n, depth) ==
  IF n <= 1 \/ BlockUniform(c.dest_base, c.dest_keys_per_block, off, n)
  THEN [rank |-> 0, iter |-> it]
  ELSE LET d == DecodeLeft(huff_, HuffmanCodingLimit, c.in_buf, it, n)
           left == WVal(d.left)
       IN  IF FollowLeft(WeakOrdering, BitGet(c.key, depth), left)
           THEN LocateAlone(c, d.iter, off, left, depth + 1)
           ELSE LET r == LocateAlone(c,
                           SkipAlone(c, d.iter, off, left, depth + 1),
                           off + left, n - left, depth + 1)
                IN  [rank |-> left + r.rank, iter |-> r.iter]

\* the calls of all threads
Calls ==
  {Running} \cup
  {threads.saved[t] : t \in (DOMAIN threads.saved) \ {threads.self}}

\* the call c has come as far as it would have alone
AsAlone(c) ==
  /\ c.pc \in {"idle", "encode", "encoded", "locate", "done"}
  /\ (c.pc \in {"encoded", "locate", "done"})
       => c.out_buf = EncodeAlone(c, c.off0, c.n0, 0)
  /\ (c.pc \in {"locate", "done"}) => c.in_buf = c.out_buf
  /\ (c.pc = "done")
       => LET r == LocateAlone(c, 0, c.off0, c.n0, 0)
          IN  c.rank = r.rank /\ c.iter = r.iter

\* C13: however the encode and locate calls of several threads on one codec
\* interleave, each call writes the bits and returns the rank and cursor it
\* would alone, and the Huffman tables stay those the constructor built
ConcurrentReadersSafe ==
  /\ huff_ = Construct(WeakOrdering, HuffmanCodingLimit)
  /\ \A c \in Calls : AsAlone(c)

\* one thread has located a key behind a skipped subtree while the other is
\* inside locate on another array
ConcurrentReadersReached ==
  /\ threads.self = 2
  /\ pc = "done"
  /\ rank >= 2
  /\ iter > 2
  /\ threads.saved[1].pc = "locate"
  /\ threads.saved[1].iter > 0
  /\ threads.saved[1].arr # arr

\* C14: no invocation of encode_rec, locate_rec or skip_rec is ever entered
\* at a depth beyond key_len * 8, and every invocation that calls its
\* children hands them left and n - left keys with left <= n, so that the
\* recursion is bounded by key_len * 8 and n and every call terminates
BoundedRecursion ==
  /\ \A i \in 1..Len(stack) : stack[i].depth <= key_len * 8
  /\ (last.kind \in {"split", "unchecked"}) => WLe(last.left, W(last.n))

\* C15: when encode ends with InvalidInput the output buffer is as it was
\* before the call (empty), and a locate that ends with Corruption never
\* returns a rank
NoPartialResultOnError ==
  /\ (err = "InvalidInput") => (pc = "abort" /\ out_buf = <<>>)
  /\ (err = "Corruption") => pc = "abort"

\* the keys of the invocation's range agree on each of their first depth bits
SharePrefix(f) ==
  \A i, j \in 1..f.n :
    \A b \in 0..(f.depth - 1) :
      b < key_len * 8 =>
        BitGet(arr[f.off + i], b) = BitGet(arr[f.off + j], b)

\* C16: while a sorted array of pairwise distinct keys is encoded, whatever
\* dest_base, dest_keys_per_block and the ordering mode, every range
\* encode_rec is called on or is yet to return from holds keys that agree on
\* their first depth bits, a range of more than one key has
\* depth < key_len * 8, and the duplicate-key check never fires
NoFalseDuplicateAlarm ==
  Distinct(arr) =>
    /\ err # "InvalidInput"
    /\ ~(last.op = "encode" /\ last.kind = "abort")
    /\ \A k \in 1..Len(stack) :
         (stack[k].op \in {"encode", "ret_encode"})
           => /\ SharePrefix(stack[k])
              /\ (stack[k].n > 1) => stack[k].depth < key_len * 8

\* with weak ordering, two keys that differ in their last bit only were
\* split at depth key_len * 8 - 1, inside an array of three or more keys
NoFalseDuplicateAlarmReached ==
  /\ Distinct(arr)
  /\ WeakOrdering
  /\ Len(arr) >= 3
  /\ last.op = "encode"
  /\ last.kind = "split"
  /\ last.n = 2
  /\ last.depth = key_len * 8 - 1

\* C17: every symbol encode_rec hands to the Huffman table of a range of
\* 2 <= n <= HuffmanCodingLimit keys is a symbol of that table: 0 <= left <= n
\* without weak ordering, 0 <= left <= n - 1 with it, for every key array,
\* duplicates included
SymbolInAlphabet ==
  /\ ~(last.op = "encode" /\ last.kind = "wild")
  /\ pc # "wild"
  /\ \A e \in enc_log :
       (2 <= e.n /\ e.n <= HuffmanCodingLimit)
         => /\ e.left \in DOMAIN huff_[e.n]
            /\ 0 <= e.left
            /\ e.left <= (IF WeakOrdering THEN e.n - 1 ELSE e.n)

\* with weak ordering, a range of four keys that all have a 0 bit at its
\* depth was written with the size-4 table
SymbolInAlphabetReached ==
  /\ WeakOrdering
  /\ HuffmanCodingLimit = 16
  /\ last.op = "encode"
  /\ last.kind = "split"
  /\ last.n = 4
  /\ last.bit = 4
  /\ last.left = W(0)
  /\ \E e \in enc_log : e.n = 4 /\ e.left = 0

RECURSIVE Choose(_, _)
\* the binomial coefficient, by Pascal's rule
Choose(n, k) ==
  IF k = 0 \/ k = n THEN 1 ELSE Choose(n - 1, k - 1) + Choose(n - 1, k)

\* C18: for every n in 2..16 the constructor's recurrence v := v*(n-k+1)/k
\* gives symbol k the weight C(n, k), every division being exact and every
\* product small; without weak ordering for k = 0..n, and with it symbol 0
\* has weight 2, symbols 1..n-1 have weight C(n, k) and there is no symbol n
WeightsAreBinomial ==
  (pc = "read" /\ probe.kind = "weights")
    => LET n == probe.n
           top == IF WeakOrdering THEN n - 1 ELSE n
       IN  /\ Len(probe.w) = top + 1
           /\ probe.w[1] = (IF WeakOrdering THEN 2 ELSE 1)
           /\ \A k \in 1..top :
                /\ probe.w[k + 1] = Choose(n, k)
                /\ (Choose(n, k - 1) * (n - k + 1)) % k = 0
                /\ Choose(n, k - 1) * (n - k + 1) = k * probe.w[k + 1]
                /\ (Choose(n, k - 1) * (n - k + 1)) \div LimbBase < LimbTop

\* the weights of size 16 without weak ordering, the middle one C(16, 8)
WeightsAreBinomialReached ==
  /\ pc = "read"
  /\ probe.kind = "weights"
  /\ ~WeakOrdering
  /\ probe.n = 16
  /\ Len(probe.w) = 17
  /\ probe.w[9] = 12870

\* C19: at a range of n > HuffmanCodingLimit keys, for every left in 0..n,
\* the bits encode_rec writes for left, exp_golomb(sign_interleave(left -
\* n / 2)) with the subtraction modulo 2^64, are read back by locate_rec and
\* skip_rec as the word left, with the cursor just behind them
GolombWrapSurvives ==
  (pc = "read" /\ probe.kind = "left")
    => /\ probe.ok
       /\ probe.v_out = W(probe.u)
       /\ iter = Len(out_buf)
       /\ iter > probe.start

\* a left below n / 2, whose difference from n / 2 wraps, was read back
GolombWrapReached ==
  /\ pc = "read"
  /\ probe.kind = "left"
  /\ probe.n = 257
  /\ probe.u = 0
  /\ WTopBit(WSub(W(probe.u), W(probe.n \div 2))) = 1
  /\ probe.v_out = W(0)
  /\ probe.start > 0

\* C20: for a sorted array of pairwise distinct keys encoded over [0, n)
\* with any dest_base and dest_keys_per_block, in either ordering mode,
\* locate of the key at index i returns a rank r <= i with position
\* dest_base + r in the destination block of position dest_base + i
BlockLevelCorrect ==
  (Distinct(arr) /\ pc = "done")
    => \A i \in 1..Len(arr) :
         (arr[i] = key)
           => /\ rank <= i - 1
              /\ (dest_base + off0 + rank) \div dest_keys_per_block =
                   (dest_base + off0 + i - 1) \div dest_keys_per_block

\* a key was located at the start of its block, below its own index, in an
\* array that spans more than one block
BlockLevelCorrectReached ==
  /\ Distinct(arr)
  /\ pc = "done"
  /\ dest_base = 0
  /\ dest_keys_per_block = 2
  /\ Len(arr) = 4
  /\ key = arr[4]
  /\ rank = 2
  /\ iter > 0

\* C21: on the bits encode wrote for a sorted array of pairwise distinct
\* keys, locate with any query key of key_len bytes and the same parameters
\* meets neither depth >= key_len * 8 at a range it decodes nor left > n,
\* never reads past the bits written, returns a rank in 0..n, and leaves
\* the cursor within the bits written
LocateSafeForAnyKey ==
  (Distinct(arr) /\ pc \in {"locate", "done", "abort", "eof", "continued"})
    => /\ pc \in {"locate", "done"}
       /\ (last.op \in {"locate", "skip"})
            => /\ last.kind \in {"leaf", "block", "split"}
               /\ (last.kind = "split")
                    => /\ last.depth < key_len * 8
                       /\ WLe(last.left, W(last.n))
       /\ 0 <= iter /\ iter <= Len(out_buf)
       /\ 0 <= rank /\ rank <= n0

\* locate of a key that is not in the array returned, after skipping a
\* subtree that holds bits
LocateSafeForAnyKeyReached ==
  /\ Distinct(arr)
  /\ Len(arr) = 4
  /\ \A i \in 1..Len(arr) : arr[i] # key
  /\ pc = "done"
  /\ rank >= 2
  /\ iter > 2

\* C22: with weak ordering and dest_keys_per_block = 1, for a sorted array
\* of pairwise distinct keys encoded over [0, n), locate of a key of the
\* array fails nowhere and returns that key's index
WeakExactForMembers ==
  (WeakOrdering /\ dest_keys_per_block = 1 /\ Distinct(arr))
    => /\ pc \notin {"abort", "eof", "continued", "wild"}
       /\ (pc = "done") =>
            \A i \in 1..Len(arr) : arr[i] = key => rank = i - 1

\* with weak ordering, the last key of an array whose keys all begin with a
\* 1 bit (a collapsed root) was located
WeakExactForMembersReached ==
  /\ WeakOrdering /\ dest_keys_per_block = 1
  /\ Distinct(arr)
  /\ Len(arr) >= 2
  /\ \A i \in 1..Len(arr) : BitGet(arr[i], 0) = 1
  /\ key = arr[Len(arr)]
  /\ pc = "done"
  /\ rank = Len(arr) - 1

(***************************************************************************)
(* RadosFio (src/modules/rados/rados_fio.cc): file objects with a reference *)
(* count, one mutex for all of them, client threads calling the operations  *)
(* and the librados thread running the completion callbacks.  An operation  *)
(* is a sequence of steps: a step ends where the code takes mutex_, calls   *)
(* rados, or returns.                                                       *)
(***************************************************************************)
\* most operations called in one run
MaxCalls == 3

\* the client threads, and the RadosFobj objects that can be allocated
Clients == {1, 2}
FobjIds == {1}

\* the holder of mutex_ while the callback of the async write `id` runs
CbId(id) == 10 + id

\* rados_aio_get_return_value of a completed write: 0, -EIO, -ENOSPC
AioReturns == {0, -5, -28}
\* the return value of rados_write
WriteReturns == {0, -5}
\* the return value of rados_read: bytes read, or -EIO
ReadReturns == {-5, 0, 2}
\* rados_stat: its return value (0, -ENOENT, -EIO), size and mtime (seconds)
StatReturns == {0, -2, -5}
StatSizes == {0, 2}
StatTimes == {1}
\* time(NULL), in seconds, and Env::Default()->NowMicros()
TimeNow == {2}
NowMicrosValues == {500000, 3000000}
\* buf.size() of Write and Pwrite, and the off of Pwrite and Pread
WriteLens == {1, 2}
Offsets == {1}

\* RadosError(): the Status of a rados return value
RadosError(r) == IF r = -2 THEN "NotFound" ELSE "IOError"

NoFobj ==
  [state |-> "none", nrefs |-> 0, err |-> 0, off |-> 0, size |-> 0,
   mtime |-> 0, open |-> FALSE, frees |-> 0]

IdleOp ==
  [op |-> "idle", pc |-> "idle", next |-> "idle", o |-> 0, off |-> 0,
   len |-> 0, n |-> 0, s |-> "OK", force |-> FALSE, wait |-> {},
   io |-> 0, touched |-> FALSE, failed |-> FALSE]

\* everything but the RadosFio variables
trie_vars == <<WeakOrdering, HuffmanCodingLimit, NDEBUG, huff_, arr, key_len,
               off0, n0, dest_base, dest_keys_per_block, out_buf, in_buf,
               iter, key, stack, rank, pc, err, last, enc_log, enc_span,
               skip_done, probe, dist, rebuild, threads>>

InitFio ==
  /\ WeakOrdering = FALSE
  /\ HuffmanCodingLimit = 2
  /\ NDEBUG = FALSE
  /\ huff_ = Construct(FALSE, 2)
  /\ key_len = 1
  /\ arr = <<>>
  /\ off0 = 0
  /\ n0 = 0
  /\ dest_base = 0
  /\ dest_keys_per_block = 1
  /\ out_buf = <<>>
  /\ in_buf = <<>>
  /\ iter = 0
  /\ key = <<0>>
  /\ stack = <<>>
  /\ rank = 0
  /\ pc = "fio"
  /\ err = "none"
  /\ last = NoStep
  /\ enc_log = {}
  /\ enc_span = {}
  /\ skip_done = {}
  /\ probe = NoProbe
  /\ dist = NoDist
  /\ rebuild = NoRebuild
  /\ threads = NoThreads
  /\ sync_ \in BOOLEAN
  /\ mutex_ = 0
  /\ fobj = [o \in FobjIds |-> NoFobj]
  /\ ops = [t \in Clients |-> IdleOp]
  /\ rados = NoRados
  /\ audit = NoAudit
  /\ ret = NoRet

\* the next RadosFobj malloc returns
FreeSlots == {o \in FobjIds : fobj[o].state = "none"}
NewFobj == CHOOSE o \in FreeSlots : \A p \in FreeSlots : o <= p

\* the handles a caller may pass: those Creat or Open allocated and nobody
\* has closed or is closing
Closing(o) == \E t \in Clients : ops[t].op = "Close" /\ ops[t].o = o
Busy(o) == \E t \in Clients : ops[t].op # "idle" /\ ops[t].o = o
Handles == {o \in FobjIds : fobj[o].state = "live" /\ fobj[o].open /\ ~Closing(o)}

CanCall(t) == ops[t].op = "idle" /\ rados.calls < MaxCalls

\* an access to *fobj by the thread or callback `who`
Access(a, who, o) ==
  [a EXCEPT !.freed_access = @ \/ fobj[o].state # "live",
            !.unlocked_access = @ \/ mutex_ # who]

\* a rados call by `who`
RadosCall(a, who) == [a EXCEPT !.locked_io = @ \/ mutex_ = who]

\* mutex_.Unlock() and ~MutexLock by `who`
Unlock(a, who) == [a EXCEPT !.bad_unlock = @ \/ mutex_ # who]

\* the holder of mutex_ after the mutex_.Unlock() that precedes a rados call
\* (rados_fio.cc:182, 214, 256, 294, 327)
StillHeld(who) == who

Unlocked(who) == 0

\* rados_aio_write / rados_aio_write_full on fobj->comp: one more write in
\* flight, whose callback IO_safe is yet to run
Issue(r, o) ==
  [r EXCEPT !.next = @ + 1,
            !.inflight = @ \cup {[id |-> r.next + 1, o |-> o, stage |-> "sent",
                                  rv |-> 0]}]

\* rados_fio.cc:82 and 127: the references a new object starts with
FirstRefsHandleOnly(io) == 1

FirstRefs(io) == IF io THEN 2 ELSE 1

\* an Unref that frees the object while one reference is left
UnrefEarly(f) ==
  IF f.nrefs <= 2
  THEN [f EXCEPT !.nrefs = 0, !.state = "freed", !.frees = @ + 1]
  ELSE [f EXCEPT !.nrefs = @ - 1]

\* rados_fio.cc:65-78
Unref(f) ==
  IF f.nrefs = 0 THEN f
  ELSE IF f.nrefs = 1
  THEN [f EXCEPT !.nrefs = 0, !.state = "freed", !.frees = @ + 1]
  ELSE [f EXCEPT !.nrefs = @ - 1]

UnrefAudit(a, f) == [a EXCEPT !.unref_zero = @ \/ f.nrefs = 0]

\* rados_fio.cc:80-93; *fh is never assigned: the caller's variable keeps
\* what it held (0 here), which is not the object just allocated
Creat(t) ==
  /\ CanCall(t)
  /\ FreeSlots # {}
  /\ \E now \in NowMicrosValues :
       LET o == NewFobj
       IN  /\ fobj' = [fobj EXCEPT ![o] =
                         [NoFobj EXCEPT !.state = "live",
                                        !.nrefs = FirstRefs(TRUE),
                                        !.mtime = now, !.open = TRUE]]
           /\ rados' = [Issue(rados, o) EXCEPT !.calls = @ + 1]
           /\ ret' = [op |-> "Creat", t |-> t, o |-> o, s |-> "OK", fh |-> 0,
                      alloc |-> TRUE, io |-> 1, touched |-> FALSE,
                      failed |-> FALSE, force |-> FALSE, info |-> <<>>]
  /\ UNCHANGED <<trie_vars, sync_, mutex_, ops, audit>>

\* rados_fio.cc:95-140; *fh is never assigned here either
Open(t) ==
  /\ CanCall(t)
  /\ FreeSlots # {}
  /\ \E r \in StatReturns, stat_size \in StatSizes, stat_mtime \in StatTimes,
        now \in TimeNow, create_if_missing \in BOOLEAN, truncate_if_exists \in BOOLEAN :
       LET s0 == IF r # 0 THEN RadosError(r) ELSE "OK"
           trunc == \/ (s0 = "OK" /\ stat_size # 0 /\ truncate_if_exists)
                    \/ (s0 = "NotFound" /\ create_if_missing)
           s == IF s0 = "NotFound" /\ create_if_missing THEN "OK" ELSE s0
           obj_size == IF trunc THEN 0 ELSE stat_size
           obj_mtime == IF trunc THEN now ELSE stat_mtime
           o == NewFobj
       IN  /\ (r # 0) => (stat_size = 0)
           /\ IF s = "OK"
              THEN /\ fobj' = [fobj EXCEPT ![o] =
                                 [NoFobj EXCEPT !.state = "live",
                                                !.nrefs = FirstRefs(trunc),
                                                !.mtime = 1000 * 1000 * obj_mtime,
                                                !.size = obj_size,
                                                !.open = TRUE]]
                   /\ rados' = [(IF trunc THEN Issue(rados, o) ELSE rados)
                                  EXCEPT !.calls = @ + 1]
              ELSE /\ rados' = [rados EXCEPT !.calls = @ + 1]
                   /\ UNCHANGED fobj
           /\ ret' = [op |-> "Open", t |-> t, o |-> IF s = "OK" THEN o ELSE 0,
                      s |-> s, fh |-> 0, alloc |-> s = "OK",
                      io |-> IF s = "OK" /\ trunc THEN 1 ELSE 0,
                      touched |-> FALSE, failed |-> FALSE, force |-> FALSE,
                      info |-> <<>>]
  /\ UNCHANGED <<trie_vars, sync_, mutex_, ops, audit>>

\* MutexLock ml(&mutex_) / mutex_.Lock(): the thread waits for the mutex
Acquire(t) ==
  /\ ops[t].pc = "lock"
  /\ mutex_ = 0
  /\ mutex_' = t
  /\ ops' = [ops EXCEPT ![t].pc = ops[t].next]
  /\ UNCHANGED <<trie_vars, sync_, fobj, rados, audit, ret>>

\* the return of an operation, as the caller sees it
Return(c, t, info) ==
  [op |-> c.op, t |-> t, o |-> c.o, s |-> c.s, fh |-> 0, alloc |-> FALSE,
   io |-> c.io, touched |-> c.touched, failed |-> c.failed, force |-> c.force,
   info |-> info]

\* rados_fio.cc:142-147
GetInfoCall(t) ==
  /\ CanCall(t)
  /\ \E o \in Handles :
       ops' = [ops EXCEPT ![t] =
                 [IdleOp EXCEPT !.op = "GetInfo", !.pc = "lock",
                                !.next = "GetInfo", !.o = o,
                                !.failed = fobj[o].err # 0]]
  /\ rados' = [rados EXCEPT !.calls = @ + 1]
  /\ UNCHANGED <<trie_vars, sync_, mutex_, fobj, audit, ret>>

\* rados_fio.cc:148-158
GetInfo(t) ==
  /\ ops[t].pc = "GetInfo"
  /\ LET c == ops[t]
         f == fobj[c.o]
         s == IF f.err # 0 THEN RadosError(f.err) ELSE "OK"
     IN  /\ ret' = Return([c EXCEPT !.s = s], t,
                          IF s = "OK" THEN <<f.mtime, f.size>> ELSE <<>>)
         /\ audit' = Unlock(Access(audit, t, c.o), t)
  /\ mutex_' = 0
  /\ ops' = [ops EXCEPT ![t] = IdleOp]
  /\ UNCHANGED <<trie_vars, sync_, fobj, rados>>

\* rados_fio.cc:160-164; the caller closes a handle once, with no other
\* operation on it under way
CloseCall(t) ==
  /\ CanCall(t)
  /\ \E o \in Handles :
       /\ ~Busy(o)
       /\ ops' = [ops EXCEPT ![t] =
                    [IdleOp EXCEPT !.op = "Close", !.pc = "lock",
                                   !.next = "Close", !.o = o,
                                   !.failed = fobj[o].err # 0]]
  /\ rados' = [rados EXCEPT !.calls = @ + 1]
  /\ UNCHANGED <<trie_vars, sync_, mutex_, fobj, audit, ret>>

\* rados_fio.cc:165-171
Close(t) ==
  /\ ops[t].pc = "Close"
  /\ LET c == ops[t]
         f == fobj[c.o]
         s == IF f.err # 0 THEN RadosError(f.err) ELSE "OK"
     IN  /\ ret' = Return([c EXCEPT !.s = s, !.touched = TRUE], t, <<>>)
         /\ fobj' = [fobj EXCEPT ![c.o] = [Unref(f) EXCEPT !.open = FALSE]]
         /\ audit' = Unlock(UnrefAudit(Access(audit, t, c.o), f), t)
  /\ mutex_' = 0
  /\ ops' = [ops EXCEPT ![t] = IdleOp]
  /\ UNCHANGED <<trie_vars, sync_, rados>>

\* rados_fio.cc:44-57: librados runs the callback of a write in flight, which
\* fetches the write's return value and waits for the mutex
IoSafe ==
  \E a \in rados.inflight :
    /\ a.stage = "sent"
    /\ mutex_ = 0
    /\ \E rv \in AioReturns :
         rados' = [rados EXCEPT !.inflight =
                     (@ \ {a}) \cup {[a EXCEPT !.stage = "locked", !.rv = rv]}]
    /\ mutex_' = CbId(a.id)
    /\ UNCHANGED <<trie_vars, sync_, fobj, ops, audit, ret>>

\* an update that records the return value of every write
RecordLast(f, rv) == [f EXCEPT !.err = rv]

\* rados_fio.cc:58-60
RecordFirst(f, rv) == IF f.err = 0 /\ rv # 0 THEN [f EXCEPT !.err = rv] ELSE f

\* rados_fio.cc:58-62
UpdateAndUnref ==
  \E a \in rados.inflight :
    /\ a.stage = "locked"
    /\ LET f == fobj[a.o]
           g == RecordFirst(f, a.rv)
       IN  /\ fobj' = [fobj EXCEPT ![a.o] = Unref(g)]
           /\ audit' = Unlock(UnrefAudit(Access(audit, CbId(a.id), a.o), f),
                              CbId(a.id))
    /\ rados' = [rados EXCEPT !.inflight = @ \ {a},
                              !.failed = IF a.rv # 0 THEN @ \cup {a.id} ELSE @]
    /\ mutex_' = 0
    /\ ret' = [op |-> "IO_safe", t |-> 0, o |-> a.o, s |-> "OK", fh |-> 0,
               alloc |-> FALSE, io |-> 0, touched |-> TRUE, failed |-> FALSE,
               force |-> FALSE, info |-> <<a.rv>>]
    /\ UNCHANGED <<trie_vars, sync_, ops>>


\* Status of the error a file object has recorded
ErrStatus(f) == IF f.err # 0 THEN RadosError(f.err) ELSE "OK"

\* the operation of thread t returns: ~MutexLock releases mutex_
ReturnLocked(t, c, a, info) ==
  /\ ret' = Return(c, t, info)
  /\ audit' = Unlock(a, t)
  /\ mutex_' = 0
  /\ ops' = [ops EXCEPT ![t] = IdleOp]

\* rados_fio.cc:173-178
FlushCall(t) ==
  /\ CanCall(t)
  /\ \E o \in Handles, force_sync \in BOOLEAN :
       ops' = [ops EXCEPT ![t] =
                 [IdleOp EXCEPT !.op = "Flush", !.pc = "lock",
                                !.next = "FlushCheck", !.o = o,
                                !.force = force_sync,
                                !.failed = fobj[o].err # 0,
                                !.wait = {a.id : a \in {b \in rados.inflight : b.o = o}}]]
  /\ rados' = [rados EXCEPT !.calls = @ + 1]
  /\ UNCHANGED <<trie_vars, sync_, mutex_, fobj, audit, ret>>

\* rados_fio.cc:179-186 (and the return at 197 when there is nothing to sync)
FlushCheck(t) ==
  /\ ops[t].pc = "FlushCheck"
  /\ LET c == ops[t]
         s == ErrStatus(fobj[c.o])
         a == Unlock(Access(audit, t, c.o), t)
     IN  /\ audit' = a
         /\ mutex_' = Unlocked(t)
         /\ IF s = "OK" /\ c.force
            THEN /\ ops' = [ops EXCEPT ![t].pc = "FlushAio"]
                 /\ UNCHANGED ret
            ELSE /\ ret' = Return([c EXCEPT !.s = s], t, c.wait)
                 /\ ops' = [ops EXCEPT ![t] = IdleOp]
  /\ UNCHANGED <<trie_vars, sync_, fobj, rados>>

\* rados_fio.cc:189: rados_aio_flush(ioctx_) is called; it waits for every
\* write of the io context that is in flight now
FlushAio(t) ==
  /\ ops[t].pc = "FlushAio"
  /\ ops' = [ops EXCEPT ![t].pc = "FlushWait", ![t].io = @ + 1,
                        ![t].n = Cardinality(rados.inflight),
                        ![t].len = rados.next]
  /\ audit' = RadosCall(audit, t)
  /\ UNCHANGED <<trie_vars, sync_, mutex_, fobj, rados, ret>>

\* rados_aio_flush returns at once
SafeAtOnce(upto) == TRUE

\* librados: every write issued up to `upto` is safe and its callback is done
Safe(upto) == \A a \in rados.inflight : a.id > upto

\* rados_fio.cc:189-190: rados_aio_flush returns once those writes are safe
\* and their callbacks have completed; the thread then waits for mutex_
FlushWait(t) ==
  /\ ops[t].pc = "FlushWait"
  /\ Safe(ops[t].len)
  /\ ops' = [ops EXCEPT ![t].pc = "lock", ![t].next = "FlushRecheck"]
  /\ UNCHANGED <<trie_vars, sync_, mutex_, fobj, rados, audit, ret>>

\* rados_fio.cc:190-197
FlushRecheck(t) ==
  /\ ops[t].pc = "FlushRecheck"
  /\ LET c == ops[t]
     IN  ReturnLocked(t, [c EXCEPT !.s = ErrStatus(fobj[c.o])],
                      Access(audit, t, c.o), c.wait)
  /\ UNCHANGED <<trie_vars, sync_, fobj, rados>>

\* rados_fio.cc:200-205
WriteCall(t) ==
  /\ CanCall(t)
  /\ \E o \in Handles, len \in WriteLens :
       ops' = [ops EXCEPT ![t] =
                 [IdleOp EXCEPT !.op = "Write", !.pc = "lock",
                                !.next = "WriteBegin", !.o = o, !.len = len,
                                !.failed = fobj[o].err # 0]]
  /\ rados' = [rados EXCEPT !.calls = @ + 1]
  /\ UNCHANGED <<trie_vars, sync_, mutex_, fobj, audit, ret>>

\* rados_fio.cc:243-248
PwriteCall(t) ==
  /\ CanCall(t)
  /\ \E o \in Handles, len \in WriteLens, off \in Offsets :
       ops' = [ops EXCEPT ![t] =
                 [IdleOp EXCEPT !.op = "Pwrite", !.pc = "lock",
                                !.next = "PwriteBegin", !.o = o, !.len = len,
                                !.off = off, !.failed = fobj[o].err # 0]]
  /\ rados' = [rados EXCEPT !.calls = @ + 1]
  /\ UNCHANGED <<trie_vars, sync_, mutex_, fobj, audit, ret>>

\* rados_fio.cc:209 and 293: the offset a Write or a Read starts from
StartOff(c, f) == f.off

\* rados_fio.cc:206-214 and 249-256: the error check, the reference for the
\* callback, and the unlock before the rados call
BeginWrite(t, off, io_pc) ==
  LET c == ops[t]
      f == fobj[c.o]
      a == Access(audit, t, c.o)
  IN  IF f.err # 0
      THEN /\ ReturnLocked(t, [c EXCEPT !.s = ErrStatus(f)], a, <<>>)
           /\ UNCHANGED fobj
      ELSE /\ fobj' = [fobj EXCEPT ![c.o].nrefs = IF sync_ THEN @ ELSE @ + 1]
           /\ ops' = [ops EXCEPT ![t].pc = io_pc, ![t].off = off,
                                 ![t].touched = ~sync_]
           /\ audit' = Unlock(a, t)
           /\ mutex_' = Unlocked(t)
           /\ UNCHANGED ret

WriteBegin(t) ==
  /\ ops[t].pc = "WriteBegin"
  /\ BeginWrite(t, StartOff(ops[t], fobj[ops[t].o]), "WriteIo")
  /\ UNCHANGED <<trie_vars, sync_, rados>>

PwriteBegin(t) ==
  /\ ops[t].pc = "PwriteBegin"
  /\ BeginWrite(t, ops[t].off, "PwriteIo")
  /\ UNCHANGED <<trie_vars, sync_, rados>>

\* rados_fio.cc:215-225 and 257-267: rados_aio_write, or rados_write and its
\* return value; the thread then waits for mutex_
IoWrite(t, end_pc) ==
  /\ IF sync_
     THEN /\ \E r \in WriteReturns :
               ops' = [ops EXCEPT ![t].pc = "lock", ![t].next = end_pc,
                                  ![t].io = @ + 1,
                                  ![t].s = IF r # 0 THEN RadosError(r) ELSE "OK"]
          /\ UNCHANGED rados
     ELSE /\ ops' = [ops EXCEPT ![t].pc = "lock", ![t].next = end_pc,
                                ![t].io = @ + 1]
          /\ rados' = Issue(rados, ops[t].o)
  /\ audit' = RadosCall(audit, t)
  /\ UNCHANGED <<trie_vars, sync_, mutex_, fobj, ret>>

WriteIo(t) == ops[t].pc = "WriteIo" /\ IoWrite(t, "WriteEnd")

PwriteIo(t) == ops[t].pc = "PwriteIo" /\ IoWrite(t, "PwriteEnd")

\* an update without the comparison
Latest(a, b) == b

\* rados_fio.cc:229-234, 270-275, 306-308, 338-340
Max(a, b) == IF a > b THEN a ELSE b

\* rados_fio.cc:226-241 and 268-282
EndWrite(t, positional) ==
  LET c == ops[t]
      f == fobj[c.o]
      end == c.off + c.len
  IN  /\ \E mtime \in NowMicrosValues :
           fobj' = [fobj EXCEPT ![c.o] =
                      IF c.s = "OK"
                      THEN [f EXCEPT !.off = IF positional THEN @ ELSE end,
                                     !.mtime = Max(@, mtime),
                                     !.size = Max(@, end)]
                      ELSE f]
      /\ ReturnLocked(t, [c EXCEPT !.touched = (c.touched \/ c.s = "OK")],
                      IF c.s = "OK" THEN Access(audit, t, c.o) ELSE audit,
                      <<c.off, end>>)

WriteEnd(t) ==
  /\ ops[t].pc = "WriteEnd"
  /\ EndWrite(t, FALSE)
  /\ UNCHANGED <<trie_vars, sync_, rados>>

PwriteEnd(t) ==
  /\ ops[t].pc = "PwriteEnd"
  /\ EndWrite(t, TRUE)
  /\ UNCHANGED <<trie_vars, sync_, rados>>

\* rados_fio.cc:284-289
ReadCall(t) ==
  /\ CanCall(t)
  /\ \E o \in Handles :
       ops' = [ops EXCEPT ![t] =
                 [IdleOp EXCEPT !.op = "Read", !.pc = "lock",
                                !.next = "ReadBegin", !.o = o,
                                !.failed = fobj[o].err # 0]]
  /\ rados' = [rados EXCEPT !.calls = @ + 1]
  /\ UNCHANGED <<trie_vars, sync_, mutex_, fobj, audit, ret>>

\* rados_fio.cc:318-323
PreadCall(t) ==
  /\ CanCall(t)
  /\ \E o \in Handles, off \in Offsets :
       ops' = [ops EXCEPT ![t] =
                 [IdleOp EXCEPT !.op = "Pread", !.pc = "lock",
                                !.next = "PreadBegin", !.o = o, !.off = off,
                                !.failed = fobj[o].err # 0]]
  /\ rados' = [rados EXCEPT !.calls = @ + 1]
  /\ UNCHANGED <<trie_vars, sync_, mutex_, fobj, audit, ret>>

\* rados_fio.cc:290-294 and 324-327
BeginRead(t, off, io_pc) ==
  LET c == ops[t]
      f == fobj[c.o]
      a == Access(audit, t, c.o)
  IN  /\ IF f.err # 0
         THEN ReturnLocked(t, [c EXCEPT !.s = ErrStatus(f)], a, <<>>)
         ELSE /\ ops' = [ops EXCEPT ![t].pc = io_pc, ![t].off = off]
              /\ audit' = Unlock(a, t)
              /\ mutex_' = Unlocked(t)
              /\ UNCHANGED ret
      /\ UNCHANGED fobj

ReadBegin(t) ==
  /\ ops[t].pc = "ReadBegin"
  /\ BeginRead(t, StartOff(ops[t], fobj[ops[t].o]), "ReadIo")
  /\ UNCHANGED <<trie_vars, sync_, rados>>

PreadBegin(t) ==
  /\ ops[t].pc = "PreadBegin"
  /\ BeginRead(t, ops[t].off, "PreadIo")
  /\ UNCHANGED <<trie_vars, sync_, rados>>

\* rados_fio.cc:295-300 and 328-333: rados_read and its return value
IoRead(t, end_pc) ==
  /\ \E n \in ReadReturns :
       ops' = [ops EXCEPT ![t].pc = "lock", ![t].next = end_pc,
                          ![t].io = @ + 1, ![t].n = n,
                          ![t].s = IF n < 0 THEN RadosError(n) ELSE "OK"]
  /\ audit' = RadosCall(audit, t)
  /\ UNCHANGED <<trie_vars, sync_, mutex_, fobj, rados, ret>>

ReadIo(t) == ops[t].pc = "ReadIo" /\ IoRead(t, "ReadEnd")

PreadIo(t) == ops[t].pc = "PreadIo" /\ IoRead(t, "PreadEnd")

\* rados_fio.cc:301-316 and 334-348
EndRead(t, positional) ==
  LET c == ops[t]
      f == fobj[c.o]
      end == c.off + c.n
      moved == c.s = "OK" /\ c.n > 0
  IN  /\ fobj' = [fobj EXCEPT ![c.o] =
                    IF moved
                    THEN [f EXCEPT !.off = IF positional THEN @ ELSE end,
                                   !.size = Max(@, end)]
                    ELSE f]
      /\ ReturnLocked(t, [c EXCEPT !.touched = moved],
                      IF moved THEN Access(audit, t, c.o) ELSE audit,
                      <<c.off, end>>)

ReadEnd(t) ==
  /\ ops[t].pc = "ReadEnd"
  /\ EndRead(t, FALSE)
  /\ UNCHANGED <<trie_vars, sync_, rados>>

PreadEnd(t) ==
  /\ ops[t].pc = "PreadEnd"
  /\ EndRead(t, TRUE)
  /\ UNCHANGED <<trie_vars, sync_, rados>>

\* a step of a call under way, or of a completion callback
FioProgress ==
  \/ \E t \in Clients :
       \/ Acquire(t)
       \/ GetInfo(t)
       \/ Close(t)
       \/ FlushCheck(t)
       \/ FlushAio(t)
       \/ FlushWait(t)
       \/ FlushRecheck(t)
       \/ WriteBegin(t)
       \/ WriteIo(t)
       \/ WriteEnd(t)
       \/ PwriteBegin(t)
       \/ PwriteIo(t)
       \/ PwriteEnd(t)
       \/ ReadBegin(t)
       \/ ReadIo(t)
       \/ ReadEnd(t)
       \/ PreadBegin(t)
       \/ PreadIo(t)
       \/ PreadEnd(t)
  \/ IoSafe
  \/ UpdateAndUnref

\* a client thread calls an operation
FioCall ==
  \E t \in Clients :
    \/ Creat(t)
    \/ Open(t)
    \/ GetInfoCall(t)
    \/ CloseCall(t)
    \/ FlushCall(t)
    \/ WriteCall(t)
    \/ PwriteCall(t)
    \/ ReadCall(t)
    \/ PreadCall(t)

NextFio == FioCall \/ FioProgress

SpecFio == InitFio /\ [][NextFio]_vars

\* the scheduler runs every thread and librados runs every callback
SpecFioLive == SpecFio /\ WF_vars(FioProgress)


\* the writes in flight on the file object o: issued, callback not yet done
InFlight(o) == {a \in rados.inflight : a.o = o}

\* the threads that took a reference for the callback of a write they are
\* about to issue (rados_fio.cc:211-217, 253-259)
AboutToIssue(o) ==
  {t \in Clients : ops[t].o = o /\ ops[t].pc \in {"WriteIo", "PwriteIo"} /\ ~sync_}

HandleRefs(o) == IF fobj[o].open THEN 1 ELSE 0

\* Unref is never called at zero, an object is freed once, at the step that
\* takes nrefs to zero, and nothing touches it afterwards
FreedOnceAtZero ==
  /\ ~audit.unref_zero
  /\ ~audit.freed_access
  /\ \A o \in FobjIds :
       /\ fobj[o].frees = (IF fobj[o].state = "freed" THEN 1 ELSE 0)
       /\ fobj[o].state = "live" => fobj[o].nrefs > 0
       /\ fobj[o].state = "freed" => fobj[o].nrefs = 0

ClosedEventuallyFreed ==
  /\ \A o \in FobjIds :
       (fobj[o].state = "live" /\ ~fobj[o].open) ~> (fobj[o].state = "freed")
  /\ [](\A o \in FobjIds : fobj[o].state = "freed" => InFlight(o) = {})

\* a closed object is kept for the callbacks of its writes in flight
ClosedWaitsForCallback ==
  \E o \in FobjIds :
    /\ fobj[o].state = "live" /\ ~fobj[o].open /\ InFlight(o) # {}
    /\ fobj[o].nrefs = Cardinality(InFlight(o))


\* the steps an operation takes with mutex_ held
CriticalSections ==
  {"GetInfo", "Close", "FlushCheck", "FlushRecheck", "WriteBegin", "WriteEnd",
   "PwriteBegin", "PwriteEnd", "ReadBegin", "ReadEnd", "PreadBegin", "PreadEnd"}

\* the steps that call rados_write, rados_aio_write, rados_read, rados_aio_flush
RadosCalls == {"WriteIo", "PwriteIo", "ReadIo", "PreadIo", "FlushAio", "FlushWait"}

\* C24: every access to a file object's err, nrefs, off, size and mtime is
\* made with mutex_ held; mutex_ is not held across a rados call, so its
\* holder is always at a step that needs nothing but the processor and a
\* waiting callback can proceed; an operation that has returned does not
\* hold mutex_, and mutex_ is never unlocked by a thread that does not hold it.
MutexDiscipline ==
  /\ ~audit.unlocked_access
  /\ ~audit.locked_io
  /\ ~audit.bad_unlock
  /\ \A t \in Clients :
       /\ ops[t].pc \in RadosCalls \cup {"idle", "lock"} => mutex_ # t
       /\ ops[t].pc \in CriticalSections => mutex_ = t
  /\ mutex_ \in Clients \/ mutex_ = 0
       \/ \E a \in rados.inflight : a.stage = "locked" /\ mutex_ = CbId(a.id)
  /\ \A a \in rados.inflight : a.stage = "locked" => mutex_ = CbId(a.id)

\* a thread is inside rados_read or rados_write, another holds mutex_ in its
\* second critical section, and a callback waits for mutex_
MutexDisciplineReached ==
  \E t \in Clients, u \in Clients :
    /\ ops[t].pc \in {"ReadIo", "WriteIo"}
    /\ mutex_ = u /\ ops[u].pc \in {"WriteEnd", "PwriteEnd", "ReadEnd"}
    /\ \E a \in rados.inflight : a.stage = "sent"


\* the ids of the writes in flight
InFlightIds == {a.id : a \in rados.inflight}

\* C25: a Flush with force_sync that returned OK found every write that was
\* in flight on its handle when it was called completed, none of them with a
\* non-zero return value (so a failed one makes Flush return an error); a
\* Flush without force_sync makes no rados call, and the error it reports is
\* the one the file object has recorded.
FlushIsBarrier ==
  ret.op = "Flush" =>
    /\ (ret.force /\ ret.s = "OK") =>
         /\ ret.info \cap InFlightIds = {}
         /\ ret.info \cap rados.failed = {}
         /\ ret.io = 1
    /\ ~ret.force => ret.io = 0
    /\ ret.s # "OK" => /\ fobj[ret.o].err # 0
                       /\ ret.s = RadosError(fobj[ret.o].err)
    /\ ret.failed => ret.s # "OK"

\* a Flush with force_sync, called with a write in flight on its handle, has
\* called rados_aio_flush and returned OK
FlushIsBarrierReached ==
  /\ ret.op = "Flush" /\ ret.force /\ ret.s = "OK"
  /\ ret.io = 1
  /\ ret.info # {}


\* the operations that transfer data
Transfers == {"Write", "Pwrite", "Read", "Pread"}

\* C27: a non-zero err of a file object never changes again; an operation
\* called on the handle after err became non-zero returns a non-OK status;
\* and such a Write, Pwrite, Read or Pread reaches no rados call and leaves
\* off, size, mtime and nrefs as they are.
ErrorsAreSticky ==
  /\ [][\A o \in FobjIds : fobj[o].err # 0 => fobj'[o].err = fobj[o].err]_vars
  /\ [](ret.op \in Transfers \cup {"GetInfo", "Flush", "Close"} /\ ret.failed
          => ret.s # "OK")
  /\ [](ret.op \in Transfers /\ ret.failed => ret.io = 0 /\ ~ret.touched)
  /\ [][\A t \in Clients :
          (ops[t].op \in Transfers /\ ops[t].failed /\ ops'[t] # ops[t])
            => /\ ops'[t].pc \notin RadosCalls
               /\ fobj' = fobj
               /\ rados'.inflight = rados.inflight]_vars

\* two writes have failed, the second without changing err, and a Write
\* called afterwards has returned an error
ErrorsAreStickyReached ==
  /\ ret.op = "Write" /\ ret.failed /\ ret.s # "OK"
  /\ Cardinality(rados.failed) = 2
  /\ fobj[ret.o].err # 0


\* the step of thread t that leaves the critical section `from`
Leaves(t, from) == ops[t].pc = from /\ ops'[t].pc # from

\* C28: off <= size in every state; no step decreases size or mtime; no
\* step of a Pwrite or Pread changes off; a Write or Read starts from the off
\* it finds in its first critical section, and a successful Write, or a Read
\* of n > 0 bytes, sets off to that offset plus the bytes transferred.
MetadataInvariants ==
  /\ [](\A o \in FobjIds : fobj[o].off <= fobj[o].size)
  /\ [][\A o \in FobjIds :
          fobj[o].state # "none" => /\ fobj'[o].size >= fobj[o].size
                                   /\ fobj'[o].mtime >= fobj[o].mtime]_vars
  /\ [][\A t \in Clients :
          /\ (ops[t].op \in {"Pwrite", "Pread"} /\ ops'[t] # ops[t])
               => fobj'[ops[t].o].off = fobj[ops[t].o].off
          /\ (Leaves(t, "WriteBegin") \/ Leaves(t, "ReadBegin"))
               /\ ops'[t].op # "idle"
               => ops'[t].off = fobj[ops[t].o].off
          /\ Leaves(t, "WriteEnd") /\ ops[t].s = "OK"
               => fobj'[ops[t].o].off = ops[t].off + ops[t].len
          /\ Leaves(t, "ReadEnd") /\ ops[t].s = "OK" /\ ops[t].n > 0
               => fobj'[ops[t].o].off = ops[t].off + ops[t].n]_vars

\* a Write has returned OK and set off to the end of its range, on an object
\* whose size is larger than that
MetadataInvariantsReached ==
  /\ ret.op = "Write" /\ ret.s = "OK"
  /\ fobj[ret.o].off = ret.info[2]
  /\ fobj[ret.o].size > fobj[ret.o].off


\* thread t is in a Write whose rados call has succeeded
Appending(t) ==
  /\ ops[t].op = "Write" /\ ops[t].s = "OK"
  /\ ops[t].pc = "WriteEnd" \/ (ops[t].pc = "lock" /\ ops[t].next = "WriteEnd")

\* C29: two Write calls on one handle that both succeed write to disjoint
\* byte ranges [off, off + len).
AppendsDisjoint ==
  \A t \in Clients, u \in Clients :
    (t # u /\ Appending(t) /\ Appending(u) /\ ops[t].o = ops[u].o)
      => \/ ops[t].off + ops[t].len <= ops[u].off
         \/ ops[u].off + ops[u].len <= ops[t].off


\* C30: a Creat or an Open that returned OK has stored in *fh a handle that
\* denotes the file object it allocated; an Open that returned a non-OK
\* status has allocated no file object and issued no write.
HandleHandedOut ==
  /\ (ret.op \in {"Creat", "Open"} /\ ret.s = "OK")
       => ret.alloc /\ ret.fh = ret.o
  /\ (ret.op = "Open" /\ ret.s # "OK") => ~ret.alloc /\ ret.io = 0

====
